---- MODULE Spec2Model ----
(***************************************************************************)
(* Postman -> Bruno migration validation: the two structure parsers        *)
(* (PostmanParser over the JSON export, BrunoParser over the directory     *)
(* tree) and MigrationValidator, which matches nodes by normalized name    *)
(* and emits one validation record per compared count.                     *)
(*                                                                         *)
(* Representation.  A name is a sequence of one-character strings, so that *)
(* str.lower() and str.replace() act on characters.  A path is a sequence  *)
(* of names (its components).  A JSON item is a record that says which of  *)
(* the keys 'name', 'request' and 'item' it has.  A directory is a record  *)
(* of its name, its files and its sub-directories, both in the order the   *)
(* operating system lists them.                                            *)
(***************************************************************************)
EXTENDS Integers, Sequences, FiniteSets, TLC

VARIABLES postman, bruno, validation_results, ret

vars == <<postman, bruno, validation_results, ret>>

(***************************************************************************)
(* Generic helpers                                                         *)
(***************************************************************************)
Range(s) == {s[i] : i \in 1..Len(s)}

RECURSIVE Flatten(_)
Flatten(ss) == IF ss = <<>> THEN <<>> ELSE Head(ss) \o Flatten(Tail(ss))

RECURSIVE SumSeq(_)
SumSeq(s) == IF s = <<>> THEN 0 ELSE Head(s) + SumSeq(Tail(s))

Count(s, P(_)) == Cardinality({i \in 1..Len(s) : P(s[i])})

(***************************************************************************)
(* Strings: str.lower() and str.replace(old, '') on names over the         *)
(* alphabet Chars (ASCII letters in both cases, a digit, the three         *)
(* separators the validator strips and a dot, which it does not strip)     *)
(***************************************************************************)
Upper == {"A", "B", "I", "P", "U"}
Chars == {"A", "a", "B", "b", "1", " ", "_", "-", "."}

lower_char(c) ==
    CASE c = "A" -> "a" [] c = "B" -> "b" [] c = "I" -> "i"
      [] c = "P" -> "p" [] c = "U" -> "u" [] OTHER -> c

lower(s) == [i \in 1..Len(s) |-> lower_char(s[i])]

replace(s, old) == SelectSeq(s, LAMBDA c : c # old)

normalize_name_mutant(name) == replace(replace(lower(name), " "), "_")

normalize_name(name) == replace(replace(replace(lower(name), " "), "_"), "-")

\* None as a name: a JSON null where a name is expected
NULL == <<"None">>

\* what normalize_name does with None: None has no attribute 'lower'
normalize_name_raises(name) == name = NULL

\* words the code spells out, as names
UNNAMED == <<"U", "n", "n", "a", "m", "e", "d">>
COLLECTION == <<"c", "o", "l", "l", "e", "c", "t", "i", "o", "n">>
FOLDER == <<"f", "o", "l", "d", "e", "r">>
BRU == ".bru"
Word(w) == <<w>>
NOT_FOUND == <<Word("NOT FOUND")>>
NOT_APPLICABLE == <<Word("N/A")>>

(***************************************************************************)
(* PostmanParser (src/src/validators/postman_parser.py)                    *)
(***************************************************************************)
IsFolderItem(item) == item.has_item /\ ~item.has_request

\* a count of folders that takes every item with an 'item' list for a folder
RECURSIVE PostmanParser_count_folders_mutant(_)
PostmanParser_count_folders_mutant(items) ==
    IF items = <<>> THEN 0
    ELSE LET item == Head(items)
         IN  (IF item.has_item
              THEN 1 + PostmanParser_count_folders_mutant(item.item)
              ELSE 0)
             + PostmanParser_count_folders_mutant(Tail(items))

RECURSIVE PostmanParser_count_folders(_)
PostmanParser_count_folders(items) ==
    IF items = <<>> THEN 0
    ELSE LET item == Head(items)
         IN  (IF item.has_item /\ ~item.has_request
              THEN 1 + PostmanParser_count_folders(item.item)
              ELSE 0)
             + PostmanParser_count_folders(Tail(items))

RECURSIVE PostmanParser_count_requests_mutant(_)
PostmanParser_count_requests_mutant(items) ==
    IF items = <<>> THEN 0
    ELSE LET item == Head(items)
         IN  (IF item.has_request THEN 1 ELSE 0)
             + (IF item.has_item
                THEN PostmanParser_count_requests_mutant(item.item) ELSE 0)
             + PostmanParser_count_requests_mutant(Tail(items))

RECURSIVE PostmanParser_count_requests(_)
PostmanParser_count_requests(items) ==
    IF items = <<>> THEN 0
    ELSE LET item == Head(items)
         IN  (IF item.has_request THEN 1
              ELSE IF item.has_item
                   THEN PostmanParser_count_requests(item.item)
                   ELSE 0)
             + PostmanParser_count_requests(Tail(items))

\* item.get('name', 'Unnamed')
ItemName(item) ==
    IF item.has_name THEN (IF item.name_is_null THEN NULL ELSE item.name) ELSE UNNAMED

RECURSIVE PostmanParser_get_folder_structure(_, _)
PostmanParser_get_folder_structure(items, parent_path) ==
    IF items = <<>> THEN <<>>
    ELSE LET item == Head(items)
             folder_name == ItemName(item)
             folder_path == parent_path \o <<folder_name>>
             folder_info == [name |-> folder_name,
                             path |-> folder_path,
                             type |-> "folder",
                             request_count |-> PostmanParser_count_requests(item.item),
                             folder_count |-> PostmanParser_count_folders(item.item)]
         IN  (IF item.has_item /\ ~item.has_request
              THEN <<folder_info>>
                   \o PostmanParser_get_folder_structure(item.item, folder_path)
              ELSE <<>>)
             \o PostmanParser_get_folder_structure(Tail(items), parent_path)

\* collection_data.get('info', {}).get('name', collection_file.stem)
CollectionName(collection_file) ==
    IF collection_file.has_info_name
    THEN (IF collection_file.name_is_null THEN NULL ELSE collection_file.info_name)
    ELSE collection_file.stem

JsonFileName(stem) == stem \o <<".json">>

PostmanParser_get_collection_structure(ws) ==
    IF ~ws.collections_exists THEN <<>>
    ELSE [i \in 1..Len(ws.collections) |->
            LET collection_file == ws.collections[i]
                items == collection_file.item
            IN  [name |-> CollectionName(collection_file),
                 path |-> ws.workspace_path
                          \o <<Word("collections"), JsonFileName(collection_file.stem)>>,
                 type |-> "collection",
                 request_count |-> PostmanParser_count_requests(items),
                 folder_count |-> PostmanParser_count_folders(items),
                 folders |-> PostmanParser_get_folder_structure(items, <<>>)]]

\* the keys without their repetitions: list(dict.fromkeys(...))
RECURSIVE ValueKeys_mutant(_)
ValueKeys_mutant(values) ==
    IF values = <<>> THEN <<>>
    ELSE LET rest == ValueKeys_mutant(SubSeq(values, 1, Len(values) - 1))
             last == values[Len(values)]
             key == IF last.has_key THEN last.key ELSE <<>>
         IN  IF \E j \in 1..Len(rest) : rest[j] = key THEN rest ELSE Append(rest, key)

\* v.get('key', '') for v in values
ValueKeys(values) ==
    [j \in 1..Len(values) |-> IF values[j].has_key THEN values[j].key ELSE <<>>]

PostmanParser_get_environment_variables(ws) ==
    IF ~ws.environments_exists THEN <<>>
    ELSE [i \in 1..Len(ws.environments) |->
            LET env_file == ws.environments[i]
                values == env_file.values
            IN  [name |-> IF env_file.has_name
                          THEN (IF env_file.name_is_null THEN NULL ELSE env_file.name)
                          ELSE env_file.stem,
                 path |-> ws.workspace_path
                          \o <<Word("environments"), JsonFileName(env_file.stem)>>,
                 type |-> "environment",
                 variable_count |-> Len(values),
                 variables |-> ValueKeys(values)]]

\* None when the file does not exist
NONE == [type |-> "None"]

PostmanParser_get_global_variables(ws) ==
    IF ~ws.global_vars_exists THEN NONE
    ELSE LET values == ws.global_values
         IN  [name |-> Word("Global Variables"),
              path |-> ws.workspace_path \o <<Word("global_variables.json")>>,
              type |-> "global_variables",
              variable_count |-> Len(values),
              variables |-> ValueKeys(values)]

\* json.load raises on a file that is not JSON: parse_collection,
\* parse_environment and get_global_variables read every file of an existing
\* directory, and the global variables file when it exists
PostmanParser_parse_raises(ws) ==
    \/ ws.collections_exists
       /\ \E i \in 1..Len(ws.collections) : ~ws.collections[i].parses
    \/ ws.environments_exists
       /\ \E i \in 1..Len(ws.environments) : ~ws.environments[i].parses
    \/ ws.global_vars_exists /\ ~ws.global_vars_parses

PostmanParser_get_workspace_summary(ws) ==
    LET collections == PostmanParser_get_collection_structure(ws)
        environments == PostmanParser_get_environment_variables(ws)
    IN  [workspace_path |-> ws.workspace_path,
         collection_count |-> Len(collections),
         total_folder_count |->
             SumSeq([i \in 1..Len(collections) |-> collections[i].folder_count]),
         total_request_count |->
             SumSeq([i \in 1..Len(collections) |-> collections[i].request_count]),
         environment_count |-> Len(environments),
         collections |-> collections,
         environments |-> environments,
         global_variables |-> PostmanParser_get_global_variables(ws)]

(***************************************************************************)
(* BrunoParser (src/src/validators/bruno_parser.py)                        *)
(*                                                                         *)
(* A directory is [name, files, has_meta_name, meta_name, subdirs].  Its    *)
(* files are kept as a sequence of kinds: "collection.bru", "folder.bru",   *)
(* "request.bru" (a .bru file with an HTTP-method block), "plain.bru" (a    *)
(* .bru file without one) and "readme.txt"; has_meta_name and meta_name     *)
(* say what the meta block of its folder.bru declares.  Files(dir) is the   *)
(* listing as parse_bru_file sees it: one record per file, with what the    *)
(* regular expressions find in its content.                                 *)
(*                                                                         *)
(* The content of a file, as far as the search for a method block reads    *)
(* it, is a sequence of tokens: words, " ", "{", "}" and the line break     *)
(* "\n".  Further kinds of files differ in where and how    *)
(* their content spells a method: "post.bru", "upper.bru" (GET {),         *)
(* "indented.bru" (the method after a space), "inline.bru" (the method     *)
(* after a word), "glued.bru" (get{), "nextline.bru" (the brace on the     *)
(* next line), "word.bru" (getx {) and "method.txt" (get { in a file that  *)
(* is not a .bru file).  The two marker files hold a method block too.     *)
(***************************************************************************)
NL == "\n"
MetaBlock == <<"meta", " ", "{", NL, " ", "type:", " ", "http", NL, "}", NL>>

Content(kind) ==
    CASE kind = "collection.bru" -> MetaBlock \o <<"get", " ", "{", NL, "}">>
      [] kind = "folder.bru" -> MetaBlock \o <<"post", " ", "{", NL, "}">>
      [] kind = "request.bru" -> MetaBlock \o <<NL, "get", " ", "{", NL, "}">>
      [] kind = "plain.bru" -> MetaBlock
      [] kind = "readme.txt" -> <<"x", " ", "x", NL>>
      [] kind = "post.bru" -> <<"post", " ", " ", "{", NL, "}">>
      [] kind = "upper.bru" -> MetaBlock \o <<"GET", " ", "{", NL, "}">>
      [] kind = "indented.bru" -> MetaBlock \o <<" ", "get", " ", "{", NL, "}">>
      [] kind = "inline.bru" -> <<"x", " ", "get", " ", "{", NL, "}">>
      [] kind = "glued.bru" -> MetaBlock \o <<"get", "{", NL, "}">>
      [] kind = "nextline.bru" -> MetaBlock \o <<"delete", NL, " ", "{", NL, "}">>
      [] kind = "word.bru" -> <<"get", "x", " ", "{", NL, "}">>
      [] kind = "method.txt" -> <<"get", " ", "{", NL, "}">>

FileKinds ==
    {"collection.bru", "folder.bru", "request.bru", "plain.bru", "readme.txt",
     "post.bru", "upper.bru", "indented.bru", "inline.bru", "glued.bru",
     "nextline.bru", "word.bru", "method.txt"}

http_methods == {"get", "post", "put", "patch", "delete", "head", "options"}
Whitespace == {" ", NL}

\* the search for a method block that ignores case (re.IGNORECASE)
is_request_mutant(content) ==
    \E p \in 1..Len(content) :
        /\ p = 1 \/ content[p - 1] = NL
        /\ content[p] \in http_methods \cup {"GET", "POST", "DELETE"}
        /\ \E q \in (p + 2)..Len(content) :
              /\ content[q] = "{"
              /\ \A r \in (p + 1)..(q - 1) : content[r] \in Whitespace

\* re.search(rf'^{method}\s+\{{', content, re.MULTILINE) for some method:
\* the method at the start of a line, one or more white spaces, a brace
is_request(content) ==
    \E p \in 1..Len(content) :
        /\ p = 1 \/ content[p - 1] = NL
        /\ content[p] \in http_methods
        /\ \E q \in (p + 2)..Len(content) :
              /\ content[q] = "{"
              /\ \A r \in (p + 1)..(q - 1) : content[r] \in Whitespace

\* the kinds of files in whose content the search succeeds
RequestKinds == {kind \in FileKinds : is_request(Content(kind))}

FileOf(dir, i) ==
    LET kind == dir.files[i]
    IN  [stem |-> CASE kind = "collection.bru" -> COLLECTION
                    [] kind = "folder.bru" -> FOLDER
                    [] OTHER -> <<"f", ToString(i)>>,
         suffix |-> IF kind \in {"readme.txt", "method.txt"} THEN ".txt"
                    ELSE IF kind = "bruno.json" THEN ".json" ELSE BRU,
         has_meta_name |-> kind \in {"collection.bru", "folder.bru"} /\ dir.has_meta_name,
         meta_name |-> dir.meta_name,
         has_method_block |-> kind \in RequestKinds]

Files(dir) == [i \in 1..Len(dir.files) |-> FileOf(dir, i)]

BrunoParser_parse_bru_file(file) ==
    [name |-> IF file.has_meta_name THEN file.meta_name ELSE file.stem,
     is_request |-> file.has_method_block]

HasFile(dir, stem, suffix) ==
    \E i \in 1..Len(dir.files) :
        FileOf(dir, i).stem = stem /\ FileOf(dir, i).suffix = suffix

TheFile(dir, stem, suffix) ==
    FileOf(dir, CHOOSE i \in 1..Len(dir.files) :
                   FileOf(dir, i).stem = stem /\ FileOf(dir, i).suffix = suffix)

BrunoParser_is_collection_root(dir) == HasFile(dir, COLLECTION, BRU)

BrunoParser_is_folder(dir) == HasFile(dir, FOLDER, BRU)

IsMarkerFile(file) == file.suffix = BRU /\ file.stem \in {COLLECTION, FOLDER}

BrunoParser_count_requests_in_directory(directory) ==
    Cardinality({i \in 1..Len(directory.files) :
        LET item == FileOf(directory, i)
        IN  /\ item.suffix = BRU
            /\ ~IsMarkerFile(item)
            /\ BrunoParser_parse_bru_file(item).is_request})

BrunoParser_count_folders_in_directory(directory) ==
    Cardinality({i \in 1..Len(directory.subdirs) :
        BrunoParser_is_folder(directory.subdirs[i])})

\* a count that stops at the directory's own files
BrunoParser_count_all_requests_mutant(directory) ==
    BrunoParser_count_requests_in_directory(directory)

RECURSIVE BrunoParser_count_all_requests(_)
BrunoParser_count_all_requests(directory) ==
    BrunoParser_count_requests_in_directory(directory)
    + SumSeq([i \in 1..Len(directory.subdirs) |->
                BrunoParser_count_all_requests(directory.subdirs[i])])

RECURSIVE BrunoParser_count_all_folders(_)
BrunoParser_count_all_folders(directory) ==
    BrunoParser_count_folders_in_directory(directory)
    + SumSeq([i \in 1..Len(directory.subdirs) |->
                BrunoParser_count_all_folders(directory.subdirs[i])])

\* `path` is the Path of `directory`; the code's parent_path only feeds the
\* recursive call and reaches no result, so it is not a parameter here.
RECURSIVE BrunoParser_get_folder_structure(_, _)
BrunoParser_get_folder_structure(directory, path) ==
    Flatten([i \in 1..Len(directory.subdirs) |->
        LET item == directory.subdirs[i]
            item_path == path \o <<item.name>>
        IN  IF BrunoParser_is_folder(item)
            THEN LET folder_data == BrunoParser_parse_bru_file(TheFile(item, FOLDER, BRU))
                     request_count == BrunoParser_count_requests_in_directory(item)
                     subfolder_count == BrunoParser_count_folders_in_directory(item)
                     total_request_count ==
                         request_count
                         + SumSeq([j \in 1..Len(item.subdirs) |->
                                     IF BrunoParser_is_folder(item.subdirs[j])
                                     THEN BrunoParser_count_all_requests(item.subdirs[j])
                                     ELSE 0])
                 IN  <<[name |-> folder_data.name,
                        path |-> item_path,
                        type |-> "folder",
                        request_count |-> total_request_count,
                        folder_count |-> subfolder_count,
                        direct_request_count |-> request_count]>>
                     \o BrunoParser_get_folder_structure(item, item_path)
            ELSE <<>>])

\* the collection named by the meta block of its collection.bru
BrunoParser_get_collection_structure_mutant(ws) ==
    IF ~ws.collections_exists THEN <<>>
    ELSE Flatten([i \in 1..Len(ws.collections) |->
            LET item == ws.collections[i]
                item_path == ws.workspace_path \o <<Word("collections"), item.name>>
            IN  IF BrunoParser_is_collection_root(item)
                THEN <<[name |-> BrunoParser_parse_bru_file(TheFile(item, COLLECTION, BRU)).name,
                        path |-> item_path,
                        type |-> "collection",
                        request_count |-> BrunoParser_count_all_requests(item),
                        folder_count |-> BrunoParser_count_all_folders(item),
                        folders |-> BrunoParser_get_folder_structure(item, item_path)]>>
                ELSE <<>>])

BrunoParser_get_collection_structure(ws) ==
    IF ~ws.collections_exists THEN <<>>
    ELSE Flatten([i \in 1..Len(ws.collections) |->
            LET item == ws.collections[i]
                item_path == ws.workspace_path \o <<Word("collections"), item.name>>
            IN  IF BrunoParser_is_collection_root(item)
                THEN <<[name |-> item.name,
                        path |-> item_path,
                        type |-> "collection",
                        request_count |-> BrunoParser_count_all_requests(item),
                        folder_count |-> BrunoParser_count_all_folders(item),
                        folders |-> BrunoParser_get_folder_structure(item, item_path)]>>
                ELSE <<>>])

\* A line of an environment .yml file is [indent, head, value]: whether it is
\* indented, what it starts with after strip() ("name:", "variables:",
\* "- name:" or "other") and the text that follows.  A text is a sequence
\* of tokens, the texts 'name:' and '- name:' being tokens of their own.
RECURSIVE strip(_)
strip(s) ==
    IF s = <<>> THEN s
    ELSE IF Head(s) = " " THEN strip(Tail(s))
    ELSE IF s[Len(s)] = " " THEN strip(SubSeq(s, 1, Len(s) - 1))
    ELSE s

\* line.replace('- name:', '').strip() on the lines after 'variables:'
\* the scan that leaves the section at the next top-level line that is no
\* '- name:' line
RECURSIVE ScanVariables_mutant(_, _)
ScanVariables_mutant(lines, in_variables_section) ==
    IF lines = <<>> THEN <<>>
    ELSE LET line == Head(lines)
         IN  IF line.head = "variables:"
             THEN ScanVariables_mutant(Tail(lines), TRUE)
             ELSE IF ~line.indent /\ line.head # "- name:"
             THEN ScanVariables_mutant(Tail(lines), FALSE)
             ELSE (IF in_variables_section /\ line.head = "- name:"
                   THEN <<strip(replace(line.value, "- name:"))>> ELSE <<>>)
                  \o ScanVariables_mutant(Tail(lines), in_variables_section)

RECURSIVE ScanVariables(_, _)
ScanVariables(lines, in_variables_section) ==
    IF lines = <<>> THEN <<>>
    ELSE LET line == Head(lines)
         IN  IF line.head = "variables:"
             THEN ScanVariables(Tail(lines), TRUE)
             ELSE (IF in_variables_section /\ line.head = "- name:"
                   THEN <<strip(replace(line.value, "- name:"))>> ELSE <<>>)
                  \o ScanVariables(Tail(lines), in_variables_section)

\* line.replace('name:', '').strip() on the first line that starts with
\* 'name:' as it stands, unstripped
RECURSIVE ScanEnvName(_, _)
ScanEnvName(lines, stem) ==
    IF lines = <<>> THEN stem
    ELSE LET line == Head(lines)
         IN  IF ~line.indent /\ line.head = "name:"
             THEN strip(replace(line.value, "name:"))
             ELSE ScanEnvName(Tail(lines), stem)

BrunoParser_parse_environment_file(ws, file) ==
    LET variables == ScanVariables(file.lines, FALSE)
    IN  [name |-> ScanEnvName(file.lines, file.stem),
         path |-> ws.workspace_path
                  \o <<Word("environments"), file.stem \o <<".yml">> >>,
         type |-> "environment",
         variable_count |-> Len(variables),
         variables |-> variables]

BrunoParser_get_environment_variables(ws) ==
    IF ~ws.environments_exists THEN <<>>
    ELSE [i \in 1..Len(ws.environments) |->
            BrunoParser_parse_environment_file(ws, ws.environments[i])]

BrunoParser_get_workspace_summary(ws) ==
    LET collections == BrunoParser_get_collection_structure(ws)
        environments == BrunoParser_get_environment_variables(ws)
    IN  [workspace_path |-> ws.workspace_path,
         collection_count |-> Len(collections),
         total_folder_count |->
             SumSeq([i \in 1..Len(collections) |-> collections[i].folder_count]),
         total_request_count |->
             SumSeq([i \in 1..Len(collections) |-> collections[i].request_count]),
         environment_count |-> Len(environments),
         collections |-> collections,
         environments |-> environments]

(***************************************************************************)
(* MigrationValidator (src/src/validators/migration_validator.py)          *)
(***************************************************************************)
PassIf_mutant(b) == "Pass"

PassIf(b) == IF b THEN "Pass" ELSE "Fail"

\* the last, and the first, element of `candidates` whose normalized name is
\* that of `item_name`: the loop returns at the first hit
LastMatch(item_name, candidates) ==
    LET pm_name == normalize_name(item_name)
        hits == {i \in 1..Len(candidates) :
                    normalize_name(candidates[i].name) = pm_name}
    IN  IF hits = {} THEN NONE
        ELSE candidates[CHOOSE i \in hits : \A j \in hits : i >= j]

FirstMatch(item_name, candidates) ==
    LET pm_name == normalize_name(item_name)
        hits == {i \in 1..Len(candidates) :
                    normalize_name(candidates[i].name) = pm_name}
    IN  IF hits = {} THEN NONE
        ELSE candidates[CHOOSE i \in hits : \A j \in hits : i <= j]

find_matching_bruno_collection(postman_collection, bruno_collections) ==
    FirstMatch(postman_collection.name, bruno_collections)

\* a search that compares the names as they are
find_matching_bruno_folder_mutant(postman_folder, bruno_folders) ==
    LET hits == {i \in 1..Len(bruno_folders) :
                    bruno_folders[i].name = postman_folder.name}
    IN  IF hits = {} THEN NONE
        ELSE bruno_folders[CHOOSE i \in hits : \A j \in hits : i <= j]

find_matching_bruno_folder(postman_folder, bruno_folders) ==
    FirstMatch(postman_folder.name, bruno_folders)

\* validate_folders that reports only the folders it finds
validate_folders_mutant(postman_collection, bruno_collection) ==
    LET pm_folders == SelectSeq(postman_collection.folders,
                                LAMBDA f : find_matching_bruno_folder(f, bruno_collection.folders)
                                               # NONE)
        bruno_folders == bruno_collection.folders
    IN  [i \in 1..Len(pm_folders) |->
            [postman_item_path |-> pm_folders[i].path,
             bruno_path |-> find_matching_bruno_folder(pm_folders[i], bruno_folders).path,
             type |-> "folder",
             postman_count |-> pm_folders[i].request_count,
             bruno_count |-> find_matching_bruno_folder(pm_folders[i], bruno_folders).request_count,
             validation_status |->
                 PassIf(pm_folders[i].request_count
                            = find_matching_bruno_folder(pm_folders[i], bruno_folders).request_count),
             description |-> <<"Request count in folder", pm_folders[i].name>>]]

validate_folders(postman_collection, bruno_collection) ==
    LET pm_folders == postman_collection.folders
        bruno_folders == bruno_collection.folders
    IN  [i \in 1..Len(pm_folders) |->
            LET pm_folder == pm_folders[i]
                bruno_folder == find_matching_bruno_folder(pm_folder, bruno_folders)
            IN  IF bruno_folder # NONE
                THEN [postman_item_path |-> pm_folder.path,
                      bruno_path |-> bruno_folder.path,
                      type |-> "folder",
                      postman_count |-> pm_folder.request_count,
                      bruno_count |-> bruno_folder.request_count,
                      validation_status |->
                          PassIf(pm_folder.request_count = bruno_folder.request_count),
                      description |-> <<"Request count in folder", pm_folder.name>>]
                ELSE [postman_item_path |-> pm_folder.path,
                      bruno_path |-> NOT_FOUND,
                      type |-> "folder",
                      postman_count |-> pm_folder.request_count,
                      bruno_count |-> 0,
                      validation_status |-> "Fail",
                      description |-> <<"Folder not found in Bruno", pm_folder.name>>]]

RequestCountRecord(pm_col, bruno_col) ==
    [postman_item_path |-> pm_col.path,
     bruno_path |-> bruno_col.path,
     type |-> "collection",
     postman_count |-> pm_col.request_count,
     bruno_count |-> bruno_col.request_count,
     validation_status |-> PassIf(pm_col.request_count = bruno_col.request_count),
     description |-> <<"Request count in collection", pm_col.name>>]

FolderCountRecord(pm_col, bruno_col) ==
    [postman_item_path |-> pm_col.path,
     bruno_path |-> bruno_col.path,
     type |-> "collection",
     postman_count |-> pm_col.folder_count,
     bruno_count |-> bruno_col.folder_count,
     validation_status |-> PassIf(pm_col.folder_count = bruno_col.folder_count),
     description |-> <<"Folder count in collection", pm_col.name>>]

\* the branch taken for a collection found in Bruno, with the two records swapped
MatchedCollectionRecords_mutant(pm_col, bruno_col) ==
    <<FolderCountRecord(pm_col, bruno_col), RequestCountRecord(pm_col, bruno_col)>>
    \o validate_folders(pm_col, bruno_col)

\* the branch taken for a collection found in Bruno
MatchedCollectionRecords(pm_col, bruno_col) ==
    <<RequestCountRecord(pm_col, bruno_col), FolderCountRecord(pm_col, bruno_col)>>
    \o validate_folders(pm_col, bruno_col)

CollectionNotFoundRecord(pm_col) ==
    [postman_item_path |-> pm_col.path,
     bruno_path |-> NOT_FOUND,
     type |-> "collection",
     postman_count |-> pm_col.request_count,
     bruno_count |-> 0,
     validation_status |-> "Fail",
     description |-> <<"Collection not found in Bruno", pm_col.name>>]

\* the branch taken for a collection not found, validating its folders all the same
UnmatchedCollectionRecords_mutant(pm_col) ==
    <<CollectionNotFoundRecord(pm_col)>>
    \o validate_folders(pm_col, [folders |-> <<>>])

\* the branch taken for a collection not found in Bruno
UnmatchedCollectionRecords(pm_col) == <<CollectionNotFoundRecord(pm_col)>>

\* the records of one source collection (the body of the loop)
CollectionRecords(pm_col, bruno_collections) ==
    LET bruno_col == find_matching_bruno_collection(pm_col, bruno_collections)
    IN  IF bruno_col # NONE
        THEN MatchedCollectionRecords(pm_col, bruno_col)
        ELSE UnmatchedCollectionRecords(pm_col)

\* a count record that passes when Bruno has at least as many collections
CollectionCountRecord_mutant(postman_summary, bruno_summary) ==
    [postman_item_path |-> postman_summary.workspace_path \o <<Word("collections")>>,
     bruno_path |-> bruno_summary.workspace_path \o <<Word("collections")>>,
     type |-> "workspace",
     postman_count |-> Len(postman_summary.collections),
     bruno_count |-> Len(bruno_summary.collections),
     validation_status |->
         PassIf(Len(postman_summary.collections) <= Len(bruno_summary.collections)),
     description |-> <<"Collection count in workspace", <<>> >>]

CollectionCountRecord(postman_summary, bruno_summary) ==
    [postman_item_path |-> postman_summary.workspace_path \o <<Word("collections")>>,
     bruno_path |-> bruno_summary.workspace_path \o <<Word("collections")>>,
     type |-> "workspace",
     postman_count |-> Len(postman_summary.collections),
     bruno_count |-> Len(bruno_summary.collections),
     validation_status |->
         PassIf(Len(postman_summary.collections) = Len(bruno_summary.collections)),
     description |-> <<"Collection count in workspace", <<>> >>]

validate_collections(pm_ws, bruno_ws) ==
    LET postman_summary == PostmanParser_get_workspace_summary(pm_ws)
        bruno_summary == BrunoParser_get_workspace_summary(bruno_ws)
        postman_collections == postman_summary.collections
        bruno_collections == bruno_summary.collections
    IN  <<CollectionCountRecord(postman_summary, bruno_summary)>>
        \o Flatten([i \in 1..Len(postman_collections) |->
                      CollectionRecords(postman_collections[i], bruno_collections)])

\* the record of one source environment (the body of the loop)
EnvironmentRecord(pm_env, bruno_envs) ==
    LET bruno_env == FirstMatch(pm_env.name, bruno_envs)
    IN  IF bruno_env # NONE
        THEN [postman_item_path |-> pm_env.path,
              bruno_path |-> bruno_env.path,
              type |-> "environment",
              postman_count |-> pm_env.variable_count,
              bruno_count |-> bruno_env.variable_count,
              validation_status |->
                  PassIf(pm_env.variable_count = bruno_env.variable_count),
              description |-> <<"Variable count in environment", pm_env.name>>]
        ELSE [postman_item_path |-> pm_env.path,
              bruno_path |-> NOT_FOUND,
              type |-> "environment",
              postman_count |-> pm_env.variable_count,
              bruno_count |-> 0,
              validation_status |-> "Fail",
              description |-> <<"Environment not found in Bruno", pm_env.name>>]

\* a global-variables record that judges the count
GlobalVariablesRecords_mutant(global_vars) ==
    IF global_vars # NONE
    THEN <<[postman_item_path |-> global_vars.path,
            bruno_path |-> NOT_APPLICABLE,
            type |-> "global_variables",
            postman_count |-> global_vars.variable_count,
            bruno_count |-> 0,
            validation_status |-> PassIf(global_vars.variable_count = 0),
            description |-> <<"Global variables", <<>> >>]>>
    ELSE <<>>

GlobalVariablesRecords(global_vars) ==
    IF global_vars # NONE
    THEN <<[postman_item_path |-> global_vars.path,
            bruno_path |-> NOT_APPLICABLE,
            type |-> "global_variables",
            postman_count |-> global_vars.variable_count,
            bruno_count |-> 0,
            validation_status |-> "Info",
            description |-> <<"Global variables", <<>> >>]>>
    ELSE <<>>

validate_environments(pm_ws, bruno_ws) ==
    LET postman_envs == PostmanParser_get_environment_variables(pm_ws)
        bruno_envs == BrunoParser_get_environment_variables(bruno_ws)
        global_vars == PostmanParser_get_global_variables(pm_ws)
    IN  <<[postman_item_path |-> pm_ws.workspace_path \o <<Word("environments")>>,
           bruno_path |-> bruno_ws.workspace_path \o <<Word("environments")>>,
           type |-> "environment",
           postman_count |-> Len(postman_envs),
           bruno_count |-> Len(bruno_envs),
           validation_status |-> PassIf(Len(postman_envs) = Len(bruno_envs)),
           description |-> <<"Environment count", <<>> >>]>>
        \o [i \in 1..Len(postman_envs) |-> EnvironmentRecord(postman_envs[i], bruno_envs)]
        \o GlobalVariablesRecords(global_vars)

\* validate_collections over a BrunoParser that lists the directory
\* collections/ without asking whether it exists
validate_collections_raises_mutant(pm_ws, bruno_ws) ==
    \/ ~bruno_ws.collections_exists
    \/ PostmanParser_parse_raises(pm_ws)

\* whether validate_collections raises: while parsing, or when the name of a
\* collection, or of a folder of a collection found in Bruno, is None
validate_collections_raises(pm_ws, bruno_ws) ==
    IF PostmanParser_parse_raises(pm_ws) THEN TRUE
    ELSE LET postman_collections == PostmanParser_get_collection_structure(pm_ws)
             bruno_collections == BrunoParser_get_collection_structure(bruno_ws)
         IN  \E i \in 1..Len(postman_collections) :
                LET pm_col == postman_collections[i]
                IN  IF normalize_name_raises(pm_col.name) THEN TRUE
                    ELSE /\ \E n \in 1..Len(pm_col.folders) :
                               normalize_name_raises(pm_col.folders[n].name)
                         /\ find_matching_bruno_collection(pm_col, bruno_collections) # NONE

\* whether validate_environments raises: while parsing, or when the name of
\* an environment is None
validate_environments_raises(pm_ws, bruno_ws) ==
    IF PostmanParser_parse_raises(pm_ws) THEN TRUE
    ELSE LET postman_envs == PostmanParser_get_environment_variables(pm_ws)
         IN  \E i \in 1..Len(postman_envs) : normalize_name_raises(postman_envs[i].name)

\* the report with the environments first
generate_validation_report_mutant(pm_ws, bruno_ws) ==
    validate_environments(pm_ws, bruno_ws) \o validate_collections(pm_ws, bruno_ws)

generate_validation_report(pm_ws, bruno_ws) ==
    validate_collections(pm_ws, bruno_ws) \o validate_environments(pm_ws, bruno_ws)

CountStatus(results, status) ==
    Cardinality({k \in 1..Len(results) : results[k].validation_status = status})

\* a summary that takes every record that did not pass for a failed one
get_summary_mutant(results) ==
    LET total == Len(results)
        passed == CountStatus(results, "Pass")
    IN  [total_validations |-> total,
         passed |-> passed,
         failed |-> total - passed,
         info |-> CountStatus(results, "Info"),
         success_rate |-> IF total > 0 THEN <<passed * 100, total>> ELSE <<0, 1>>]

\* the statistics of the results held; success_rate, passed / total * 100,
\* is kept as the fraction <<numerator, denominator>>
get_summary(results) ==
    LET total == Len(results)
        passed == CountStatus(results, "Pass")
        failed == CountStatus(results, "Fail")
        info == CountStatus(results, "Info")
    IN  [total_validations |-> total,
         passed |-> passed,
         failed |-> failed,
         info |-> info,
         success_rate |-> IF total > 0 THEN <<passed * 100, total>> ELSE <<0, 1>>]

(***************************************************************************)
(* Input domains: the on-disk states the two workspaces are drawn from.    *)
(* The size of a workspace counts its collections, folders, requests,      *)
(* environments and variables.  Structures are enumerated as lists         *)
(* (sequences without repetition); a table holds, at index m + 1, the      *)
(* list of all structures of size exactly m.                               *)
(***************************************************************************)
MaxSize == 5

NameA == <<"A">>
NameA2 == <<"a", "_">>
NameB == <<"B">>
SrcNames == <<NameA, NameB>>
TgtNames == <<NameA, NameA2>>

RECURSIVE ConcatOver(_, _, _)
ConcatOver(F(_), lo, hi) ==
    IF lo > hi THEN <<>> ELSE F(lo) \o ConcatOver(F, lo + 1, hi)

Cross(H, W, F(_, _)) ==
    [i \in 1..(Len(H) * Len(W)) |->
        F(H[((i - 1) \div Len(W)) + 1], W[((i - 1) % Len(W)) + 1])]

Repeat(x, n) == <<>> \o [j \in 1..n |-> x]

\* sequences of total size n whose head has size k, from the heads and the table
Sequences(n, Heads(_), table) ==
    ConcatOver(LAMBDA k : Cross(Heads(k), table[n - k + 1], LAMBDA h, w : <<h>> \o w), 1, n)

Req == [has_name |-> TRUE, name_is_null |-> FALSE, name |-> <<"1">>, has_request |-> TRUE,
        has_item |-> FALSE, item |-> <<>>]
Fold(name, children) ==
    [has_name |-> TRUE, name_is_null |-> FALSE, name |-> name, has_request |-> FALSE,
     has_item |-> TRUE, item |-> children]

SrcTrees(k, forests) ==
    IF k = 1 THEN <<Req>> \o [i \in 1..Len(SrcNames) |-> Fold(SrcNames[i], <<>>)]
    ELSE Cross(SrcNames, forests[k], Fold)

RECURSIVE SrcForests(_)
SrcForests(n) ==
    IF n = 0 THEN << <<<<>>>> >>
    ELSE LET t == SrcForests(n - 1)
         IN  Append(t, Sequences(n, LAMBDA k : SrcTrees(k, t), t))

SrcCollection(nm, f) ==
    [stem |-> <<>>, parses |-> TRUE, has_info_name |-> TRUE, name_is_null |-> FALSE,
     info_name |-> nm, item |-> f]

RECURSIVE SrcColls(_, _)
SrcColls(n, forests) ==
    IF n = 0 THEN << <<<<>>>> >>
    ELSE LET t == SrcColls(n - 1, forests)
         IN  Append(t, Sequences(n,
                 LAMBDA k : Cross(SrcNames, forests[k], SrcCollection), t))

\* the files of a directory have distinct names: number them
Stem(prefix, i) == <<prefix, ToString(i)>>

Numbered(files, prefix) ==
    <<>> \o [i \in 1..Len(files) |-> [files[i] EXCEPT !.stem = Stem(prefix, i)]]

Value == [has_key |-> TRUE, key |-> <<"b">>]

SrcEnv(nm, nvalues) ==
    [stem |-> <<>>, parses |-> TRUE, has_name |-> TRUE, name_is_null |-> FALSE,
     name |-> nm, values |-> Repeat(Value, nvalues)]

RECURSIVE SrcEnvs(_)
SrcEnvs(n) ==
    IF n = 0 THEN << <<<<>>>> >>
    ELSE LET t == SrcEnvs(n - 1)
         IN  Append(t, Sequences(n,
                 LAMBDA k : [i \in 1..Len(SrcNames) |-> SrcEnv(SrcNames[i], k - 1)], t))

PostmanRoot == <<Word("output"), Word("ws")>>
BrunoRoot == <<Word("bruno_workspaces"), Word("ws")>>

\* nglobals = 0: no global_variables.json; otherwise one with nglobals - 1 values
SrcWorkspace(cs, es, nglobals) ==
    [workspace_path |-> PostmanRoot,
     collections_exists |-> cs # <<>>, collections |-> Numbered(cs, "c"),
     environments_exists |-> es # <<>>, environments |-> Numbered(es, "e"),
     global_vars_exists |-> nglobals > 0,
     global_vars_parses |-> TRUE,
     global_values |-> Repeat(Value, nglobals - 1)]

\* a directory of a collection: marked as a folder named nm, or unmarked
Unmarked == <<>>
Markers == <<NameA2, NameB, Unmarked>>

NumberedDirs(dirs) ==
    <<>> \o [i \in 1..Len(dirs) |-> [dirs[i] EXCEPT !.name = Stem("d", i)]]

Dir(marker, r, ds) ==
    [name |-> <<>>,
     files |-> (IF marker = Unmarked THEN <<>> ELSE <<"folder.bru">>)
               \o Repeat("request.bru", r),
     has_meta_name |-> marker # Unmarked,
     meta_name |-> marker,
     subdirs |-> NumberedDirs(ds)]

TgtTrees(k, forests) ==
    ConcatOver(LAMBDA r : Cross(Markers, forests[k - r], LAMBDA m, ds : Dir(m, r, ds)),
               0, k - 1)

RECURSIVE TgtForests(_)
TgtForests(n) ==
    IF n = 0 THEN << <<<<>>>> >>
    ELSE LET t == TgtForests(n - 1)
         IN  Append(t, Sequences(n, LAMBDA k : TgtTrees(k, t), t))

CollDir(nm, r, ds) ==
    [name |-> nm,
     files |-> <<"collection.bru">> \o Repeat("request.bru", r),
     has_meta_name |-> FALSE,
     meta_name |-> <<>>,
     subdirs |-> NumberedDirs(ds)]

TgtCollTrees(k, forests) ==
    ConcatOver(LAMBDA r : Cross(TgtNames, forests[k - r], LAMBDA nm, ds : CollDir(nm, r, ds)),
               0, k - 1)

\* collection directories share a parent, so their names are distinct
DistinctNames(dirs) ==
    \A i, j \in 1..Len(dirs) : dirs[i].name = dirs[j].name => i = j

RECURSIVE TgtCollsAny(_, _)
TgtCollsAny(n, forests) ==
    IF n = 0 THEN << <<<<>>>> >>
    ELSE LET t == TgtCollsAny(n - 1, forests)
         IN  Append(t, Sequences(n, LAMBDA k : TgtCollTrees(k, forests), t))

TgtColls(n, forests) ==
    LET t == TgtCollsAny(n, forests)
    IN  [m \in 1..(n + 1) |-> SelectSeq(t[m], DistinctNames)]

Line(indent, head, value) == [indent |-> indent, head |-> head, value |-> value]

TgtEnv(nm, nvars) ==
    [stem |-> <<>>,
     lines |-> <<Line(FALSE, "name:", nm), Line(FALSE, "variables:", <<>>)>>
               \o Flatten(Repeat(<<Line(TRUE, "- name:", <<"b">>),
                                   Line(TRUE, "other", <<"1">>)>>, nvars))]

RECURSIVE TgtEnvs(_)
TgtEnvs(n) ==
    IF n = 0 THEN << <<<<>>>> >>
    ELSE LET t == TgtEnvs(n - 1)
         IN  Append(t, Sequences(n,
                 LAMBDA k : [i \in 1..Len(TgtNames) |-> TgtEnv(TgtNames[i], k - 1)], t))

TgtWorkspace(cs, es) ==
    [workspace_path |-> BrunoRoot,
     collections_exists |-> cs # <<>>, collections |-> cs,
     environments_exists |-> es # <<>>, environments |-> Numbered(es, "e")]

\* the environments of the pairs whose collections vary, and conversely
FixedSrcEnvs == <<SrcEnv(NameA, 1)>>
FixedTgtEnvs == <<TgtEnv(NameA2, 1)>>
FixedSrcColls == <<SrcCollection(NameA, <<Req, Fold(NameB, <<Req>>)>>)>>
FixedTgtColls == <<CollDir(NameA2, 1, <<Dir(NameB, 1, <<>>)>>)>>

SrcForestTable == SrcForests(MaxSize - 1)
SrcCollTable == SrcColls(MaxSize, SrcForestTable)
SrcEnvTable == SrcEnvs(MaxSize)
TgtForestTable == TgtForests(MaxSize - 1)
TgtCollTable == TgtColls(MaxSize, TgtForestTable)
TgtEnvTable == TgtEnvs(MaxSize)

ToSet(list) == {list[i] : i \in 1..Len(list)}

\* workspaces by the size of their varying part
SrcByCollections ==
    [m \in 1..(MaxSize + 1) |->
        {SrcWorkspace(SrcCollTable[m][i], FixedSrcEnvs, 3) : i \in 1..Len(SrcCollTable[m])}]
TgtByCollections ==
    [m \in 1..(MaxSize + 1) |->
        {TgtWorkspace(TgtCollTable[m][i], FixedTgtEnvs) : i \in 1..Len(TgtCollTable[m])}]
SrcByEnvironments ==
    [m \in 1..(MaxSize + 1) |->
        {SrcWorkspace(FixedSrcColls, SrcEnvTable[x[1]][x[2]], m - x[1]) :
            x \in {y \in (1..m) \X (1..Len(SrcEnvTable[m])) : y[2] <= Len(SrcEnvTable[y[1]])}}]
TgtByEnvironments ==
    [m \in 1..(MaxSize + 1) |->
        {TgtWorkspace(FixedTgtColls, TgtEnvTable[m][i]) : i \in 1..Len(TgtEnvTable[m])}]

Splits2(n) == {x \in (0..n) \X (0..n) : x[1] + x[2] <= n}

\* the sizes of two sides neither of which takes the whole budget
SplitsShared(n) == {x \in Splits2(n) : x[1] < n /\ x[2] < n}

\* the two workspaces differ in their collections, of total size <= MaxSize
CollectionPair(pm_ws, bruno_ws) ==
    \E x \in SplitsShared(MaxSize) :
        /\ pm_ws \in SrcByCollections[x[1] + 1]
        /\ bruno_ws \in TgtByCollections[x[2] + 1]

\* the two workspaces differ in their environments and global variables
EnvironmentPair(pm_ws, bruno_ws) ==
    \E x \in Splits2(MaxSize) :
        /\ pm_ws \in SrcByEnvironments[x[1] + 1]
        /\ bruno_ws \in TgtByEnvironments[x[2] + 1]

(***************************************************************************)
(* The state machine: a validator constructed over two workspaces          *)
(***************************************************************************)
NoCall == [op |-> "none"]

Init ==
    /\ \/ CollectionPair(postman, bruno)
       \/ EnvironmentPair(postman, bruno)
    /\ validation_results = <<>>
    /\ ret = NoCall

\* self.validation_results = [] comes first; an exception of
\* validate_collections leaves it empty, one of validate_environments
\* leaves it with the records of the collections
GenerateValidationReport ==
    /\ validation_results' =
           IF validate_collections_raises(postman, bruno) THEN <<>>
           ELSE IF validate_environments_raises(postman, bruno)
                THEN validate_collections(postman, bruno)
                ELSE generate_validation_report(postman, bruno)
    /\ ret' = [op |-> "generate_validation_report",
               raised |-> \/ validate_collections_raises(postman, bruno)
                          \/ validate_environments_raises(postman, bruno)]
    /\ UNCHANGED <<postman, bruno>>

Next == GenerateValidationReport

Spec == Init /\ [][Next]_vars

(***************************************************************************)
(* The round trip: the target workspace is the source workspace written    *)
(* out as directories and files.  A folder becomes a directory with a      *)
(* folder.bru that names it, a request a file of the directory, an         *)
(* environment a .yml file of as many variables.  The names may change     *)
(* within their normalization class, the directories of the collections    *)
(* get distinct names, and the file system may list the entries in the     *)
(* other order.                                                            *)
(***************************************************************************)
Reverse(s) == <<>> \o [i \in 1..Len(s) |-> s[Len(s) + 1 - i]]
Listed(s, reversed) == IF reversed THEN Reverse(s) ELSE s

Variant(name, respell) == IF respell THEN lower(name) \o <<"-">> ELSE name

IsRequestItem(item) == item.has_request

RECURSIVE MigrateItems(_, _, _)
MigrateItems(items, respell, reversed) ==
    LET folders == SelectSeq(items, IsFolderItem)
    IN  Listed(<<>> \o [i \in 1..Len(folders) |->
                   Dir(Variant(ItemName(folders[i]), respell),
                       Count(folders[i].item, IsRequestItem),
                       MigrateItems(folders[i].item, respell, reversed))],
               reversed)

MigrateCollections(cs, respell, reversed) ==
    Listed(<<>> \o [i \in 1..Len(cs) |->
              CollDir(Variant(CollectionName(cs[i]), respell) \o Repeat("_", i - 1),
                      Count(cs[i].item, IsRequestItem),
                      MigrateItems(cs[i].item, respell, reversed))],
           reversed)

MigrateEnvironments(es, respell, reversed) ==
    Listed(<<>> \o [i \in 1..Len(es) |->
              TgtEnv(Variant(es[i].name, respell), Len(es[i].values))],
           reversed)

Migrate(pm_ws, respell, reversed) ==
    TgtWorkspace(MigrateCollections(pm_ws.collections, respell, reversed),
                 MigrateEnvironments(pm_ws.environments, respell, reversed))

InitRoundTrip ==
    /\ \E m \in 1..(MaxSize + 1) :
          postman \in SrcByCollections[m] \cup SrcByEnvironments[m]
    /\ \E respell, reversed \in BOOLEAN : bruno = Migrate(postman, respell, reversed)
    /\ validation_results = <<>>
    /\ ret = NoCall

NextRoundTrip == GenerateValidationReport

SpecRoundTrip == InitRoundTrip /\ [][NextRoundTrip]_vars

(***************************************************************************)
(* normalize_name on its own: the validator is asked for the keys of two   *)
(* names of at most MaxNameLen characters                                  *)
(***************************************************************************)
MaxNameLen == 2

NameChars == {"A", "a", "B", " ", "_", "-", "."}
Names == UNION {[1..n -> NameChars] : n \in 0..MaxNameLen}

FixedPostman == SrcWorkspace(FixedSrcColls, FixedSrcEnvs, 0)
FixedBruno == TgtWorkspace(FixedTgtColls, FixedTgtEnvs)

InitNorm ==
    /\ postman = FixedPostman
    /\ bruno = FixedBruno
    /\ validation_results = <<>>
    /\ \E x, y \in Names : ret = [op |-> "names", name |-> x, other |-> y]

NormalizeName ==
    /\ ret.op = "names"
    /\ ret' = [op |-> "normalize_name", name |-> ret.name, other |-> ret.other,
               key |-> normalize_name(ret.name),
               other_key |-> normalize_name(ret.other),
               key_of_key |-> normalize_name(normalize_name(ret.name))]
    /\ UNCHANGED <<postman, bruno, validation_results>>

NextNorm == NormalizeName

SpecNorm == InitNorm /\ [][NextNorm]_vars

(***************************************************************************)
(* The source parser on its own: one collection whose item tree has at     *)
(* most MaxItems items, among them requests, folders, requests that carry  *)
(* an item list and items that are neither                                 *)
(***************************************************************************)
MaxItems == 4

Bare == [has_name |-> TRUE, name_is_null |-> FALSE, name |-> <<"1">>, has_request |-> FALSE,
         has_item |-> FALSE, item |-> <<>>]
RequestWithItems(children) ==
    [has_name |-> TRUE, name_is_null |-> FALSE, name |-> <<"1">>, has_request |-> TRUE,
     has_item |-> TRUE, item |-> children]
UnnamedFold(children) ==
    [has_name |-> FALSE, name_is_null |-> FALSE, name |-> <<>>, has_request |-> FALSE,
     has_item |-> TRUE, item |-> children]

ItemWithList(kind, children) ==
    CASE kind = "folder" -> Fold(NameA, children)
      [] kind = "unnamed folder" -> UnnamedFold(children)
      [] kind = "request" -> RequestWithItems(children)

ItemTrees(k, forests) ==
    (IF k = 1 THEN <<Req, Bare>> ELSE <<>>)
    \o Cross(<<"folder", "unnamed folder", "request">>, forests[k], ItemWithList)

RECURSIVE ItemForests(_)
ItemForests(n) ==
    IF n = 0 THEN << <<<<>>>> >>
    ELSE LET t == ItemForests(n - 1)
         IN  Append(t, Sequences(n, LAMBDA k : ItemTrees(k, t), t))

ItemForestTable == ItemForests(MaxItems)

InitPostman ==
    /\ \E m \in 1..(MaxItems + 1) : \E i \in 1..Len(ItemForestTable[m]) :
          postman = SrcWorkspace(<<SrcCollection(NameA, ItemForestTable[m][i])>>,
                                 FixedSrcEnvs, 0)
    /\ bruno = FixedBruno
    /\ validation_results = <<>>
    /\ ret = NoCall

GetCollectionStructure ==
    /\ ret = NoCall
    /\ ret' = [op |-> "get_collection_structure",
               val |-> PostmanParser_get_collection_structure(postman)]
    /\ UNCHANGED <<postman, bruno, validation_results>>

NextPostman == GetCollectionStructure

SpecPostman == InitPostman /\ [][NextPostman]_vars

(***************************************************************************)
(* The target parser on its own: the collections of a workspace of at most *)
(* MaxSize directories and request files, some directories without a       *)
(* folder.bru                                                              *)
(***************************************************************************)
InitBruno ==
    /\ postman = FixedPostman
    /\ \E m \in 1..(MaxSize + 1) : bruno \in TgtByCollections[m]
    /\ validation_results = <<>>
    /\ ret = NoCall

BrunoGetCollectionStructure ==
    /\ ret = NoCall
    /\ ret' = [op |-> "BrunoParser.get_collection_structure",
               val |-> BrunoParser_get_collection_structure(bruno)]
    /\ UNCHANGED <<postman, bruno, validation_results>>

NextBruno == BrunoGetCollectionStructure

SpecBruno == InitBruno /\ [][NextBruno]_vars

(***************************************************************************)
(* The two parsers side by side: either one is asked for the structure of  *)
(* its collections                                                         *)
(***************************************************************************)
InitParsers == InitPostman \/ InitBruno

NextParsers == GetCollectionStructure \/ BrunoGetCollectionStructure

SpecParsers == InitParsers /\ [][NextParsers]_vars

(***************************************************************************)
(* The scenario of the collection 'User API': three requests and a folder  *)
(* 'Auth' of two requests in the source; a directory 'userapi' with        *)
(* collection.bru and three request files, and a sub-directory 'Auth' with *)
(* folder.bru and two request files in the target.  What the scenario      *)
(* leaves open is drawn: whether the folder.bru declares a name in its     *)
(* meta block, how that name is spelled, and the environments of the two   *)
(* workspaces, of total size at most ScenarioEnvSize each.                 *)
(***************************************************************************)
ScenarioEnvSize == 2

USER_API == <<"U", "s", "e", "r", " ", "A", "P", "I">>
USERAPI == <<"u", "s", "e", "r", "a", "p", "i">>
AUTH == <<"A", "u", "t", "h">>

ScenarioSource ==
    <<SrcCollection(USER_API, <<Req, Req, Req, Fold(AUTH, <<Req, Req>>)>>)>>

ScenarioTarget(has_meta_name, spelling) ==
    <<[name |-> USERAPI,
       files |-> <<"collection.bru", "request.bru", "request.bru", "request.bru">>,
       has_meta_name |-> FALSE,
       meta_name |-> <<>>,
       subdirs |-> <<[name |-> AUTH,
                      files |-> <<"folder.bru", "request.bru", "request.bru">>,
                      has_meta_name |-> has_meta_name,
                      meta_name |-> IF has_meta_name THEN spelling ELSE <<>>,
                      subdirs |-> <<>>]>>]>>

InitScenario ==
    /\ \E m \in 1..(ScenarioEnvSize + 1) : \E i \in 1..Len(SrcEnvTable[m]) :
          postman = SrcWorkspace(ScenarioSource, SrcEnvTable[m][i], 0)
    /\ \E m \in 1..(ScenarioEnvSize + 1) : \E i \in 1..Len(TgtEnvTable[m]) :
       \E has_meta_name \in BOOLEAN : \E spelling \in {AUTH, lower(AUTH)} :
          bruno = TgtWorkspace(ScenarioTarget(has_meta_name, spelling), TgtEnvTable[m][i])
    /\ validation_results = <<>>
    /\ ret = NoCall

NextScenario == GenerateValidationReport

SpecScenario == InitScenario /\ [][NextScenario]_vars

(***************************************************************************)
(* Workspaces with missing parts: the directory collections/ or            *)
(* environments/ of either workspace, or the file global_variables.json,   *)
(* is kept, is there but empty, or is missing.  The source collections are *)
(* of total size at most MaxMissing.                                       *)
(***************************************************************************)
MaxMissing == 3

Parts == {"kept", "empty", "missing"}

PartExists(part, exists) == IF part = "kept" THEN exists ELSE part = "empty"
PartOf(part, files) == IF part = "kept" THEN files ELSE <<>>

SrcWithParts(ws, c, e, g) ==
    [ws EXCEPT !.collections_exists = PartExists(c, @),
               !.collections = PartOf(c, @),
               !.environments_exists = PartExists(e, @),
               !.environments = PartOf(e, @),
               !.global_vars_exists = PartExists(g, @),
               !.global_values = PartOf(g, @)]

TgtWithParts(ws, c, e) ==
    [ws EXCEPT !.collections_exists = PartExists(c, @),
               !.collections = PartOf(c, @),
               !.environments_exists = PartExists(e, @),
               !.environments = PartOf(e, @)]

InitMissing ==
    /\ \E m \in 1..(MaxMissing + 1) : \E ws \in SrcByCollections[m] :
       \E c \in Parts : \E e, g \in {"kept", "missing"} :
          postman = SrcWithParts(ws, c, e, g)
    /\ \E c \in Parts : \E e \in {"kept", "missing"} :
          bruno = TgtWithParts(FixedBruno, c, e)
    /\ validation_results = <<>>
    /\ ret = NoCall

NextMissing == GenerateValidationReport

SpecMissing == InitMissing /\ [][NextMissing]_vars

(***************************************************************************)
(* Source workspaces with unexpected content: one file that is not JSON,   *)
(* or a collection, the folders of a collection or an environment whose    *)
(* "name" is null.  The source collections are of total size at most       *)
(* MaxMalformed; the target is empty or holds the fixed collection.        *)
(***************************************************************************)
MaxMalformed == 3

NullFolderNames(items) ==
    [n \in 1..Len(items) |->
        IF IsFolderItem(items[n]) THEN [items[n] EXCEPT !.name_is_null = TRUE]
        ELSE items[n]]

Damaged(ws) ==
    {ws, [ws EXCEPT !.global_vars_parses = ~ws.global_vars_exists]}
    \cup {[ws EXCEPT !.collections[i].parses = FALSE] : i \in 1..Len(ws.collections)}
    \cup {[ws EXCEPT !.collections[i].name_is_null = TRUE] : i \in 1..Len(ws.collections)}
    \cup {[ws EXCEPT !.collections[i].item = NullFolderNames(@)] :
             i \in 1..Len(ws.collections)}
    \cup {[ws EXCEPT !.environments[i].parses = FALSE] : i \in 1..Len(ws.environments)}
    \cup {[ws EXCEPT !.environments[i].name_is_null = TRUE] :
             i \in 1..Len(ws.environments)}

InitMalformed ==
    /\ \E m \in 1..(MaxMalformed + 1) : \E ws \in SrcByCollections[m] :
          postman \in Damaged(ws)
    /\ bruno \in {FixedBruno, TgtWithParts(FixedBruno, "missing", "kept")}
    /\ validation_results = <<>>
    /\ ret = NoCall

NextMalformed == GenerateValidationReport

SpecMalformed == InitMalformed /\ [][NextMalformed]_vars

(***************************************************************************)
(* The validation script (src/validate_migration.py): one process over the *)
(* two workspace paths.  A workspace none of whose parts exists may be a   *)
(* path that does not exist; the output file is taken to be writable.      *)
(***************************************************************************)
PostmanPathExists(ws) ==
    IF ws.collections_exists \/ ws.environments_exists \/ ws.global_vars_exists
    THEN {TRUE} ELSE BOOLEAN

BrunoPathExists(ws) ==
    IF ws.collections_exists \/ ws.environments_exists THEN {TRUE} ELSE BOOLEAN

\* the exit code of a run that went as far as the report; the report is
\* never empty, so get_summary does not generate another one
exit_code(raised, results) ==
    IF raised THEN 1
    ELSE IF get_summary(results).failed > 0 THEN 1 ELSE 0

\* an uncaught exception ends the process with status 1
Main ==
    /\ ret = NoCall
    /\ \E pm_exists \in PostmanPathExists(postman) :
       \E bruno_exists \in BrunoPathExists(bruno) :
          IF ~pm_exists \/ ~bruno_exists
          THEN /\ validation_results' = validation_results
               /\ ret' = [op |-> "main", reported |-> FALSE, exit_code |-> 1]
          ELSE /\ validation_results' =
                      IF validate_collections_raises(postman, bruno) THEN <<>>
                      ELSE IF validate_environments_raises(postman, bruno)
                           THEN validate_collections(postman, bruno)
                           ELSE generate_validation_report(postman, bruno)
               /\ ret' = [op |-> "main",
                          reported |-> ~(\/ validate_collections_raises(postman, bruno)
                                         \/ validate_environments_raises(postman, bruno)),
                          exit_code |->
                              exit_code(\/ validate_collections_raises(postman, bruno)
                                        \/ validate_environments_raises(postman, bruno),
                                        validation_results')]
    /\ UNCHANGED <<postman, bruno>>

InitMain == InitScenario \/ InitMissing \/ InitMalformed

NextMain == Main

SpecMain == InitMain /\ [][NextMain]_vars

(***************************************************************************)
(* Several runs of one validator while the workspaces change on disk.      *)
(* Lists are objects: ret.heap[i] is the content of the list object i,     *)
(* ret.held the object that self.validation_results is bound to, and       *)
(* ret.returned the calls that returned, each with the object it returned, *)
(* the content of that object at the return and the on-disk state of the   *)
(* call.  validation_results is the content of the object held.            *)
(***************************************************************************)
MaxCalls == 3

\* the on-disk states the workspaces go through
RunPostman ==
    {FixedPostman,
     SrcWorkspace(FixedSrcColls, FixedSrcEnvs, 2),
     SrcWorkspace(<<SrcCollection(NameB, <<Req>>)>>, <<>>, 0),
     [FixedPostman EXCEPT !.environments[1].name_is_null = TRUE],
     [FixedPostman EXCEPT !.collections[1].parses = FALSE]}

RunBruno == {FixedBruno, TgtWithParts(FixedBruno, "missing", "kept")}

\* self.validation_results.clear(): the list held is emptied in place
reset_validation_results_mutant(h) == [h EXCEPT !.heap[h.held] = <<>>]

\* self.validation_results = []: a new list object, held from now on
reset_validation_results(h) ==
    [h EXCEPT !.heap = Append(h.heap, <<>>), !.held = Len(h.heap) + 1]

\* self.validation_results.extend(results)
extend_validation_results(h, results) == [h EXCEPT !.heap[h.held] = @ \o results]

InitRuns ==
    /\ postman \in RunPostman
    /\ bruno \in RunBruno
    /\ validation_results = <<>>
    /\ ret = [op |-> "runs", heap |-> << <<>> >>, held |-> 1, returned |-> <<>>]

\* the workspaces change between two calls
ChangeOnDisk ==
    /\ postman' \in RunPostman
    /\ bruno' \in RunBruno
    /\ <<postman', bruno'>> # <<postman, bruno>>
    /\ UNCHANGED <<validation_results, ret>>

\* the lists after validate_collections, and after validate_environments
after_validate_collections(h, pm_ws, bruno_ws) ==
    IF validate_collections_raises(pm_ws, bruno_ws) THEN reset_validation_results(h)
    ELSE extend_validation_results(reset_validation_results(h),
                                   validate_collections(pm_ws, bruno_ws))

after_validate_environments(h, pm_ws, bruno_ws) ==
    IF \/ validate_collections_raises(pm_ws, bruno_ws)
       \/ validate_environments_raises(pm_ws, bruno_ws)
    THEN after_validate_collections(h, pm_ws, bruno_ws)
    ELSE extend_validation_results(after_validate_collections(h, pm_ws, bruno_ws),
                                   validate_environments(pm_ws, bruno_ws))

\* return self.validation_results, unless an exception ended the call
return_validation_results(h, raised, pm_ws, bruno_ws) ==
    IF raised THEN h
    ELSE [h EXCEPT !.returned = Append(@, [list |-> h.held,
                                           value |-> h.heap[h.held],
                                           postman |-> pm_ws,
                                           bruno |-> bruno_ws])]

\* one more call of generate_validation_report on the same validator
GenerateValidationReportAgain ==
    /\ Len(ret.heap) <= MaxCalls
    /\ ret' = return_validation_results(
                  after_validate_environments(ret, postman, bruno),
                  \/ validate_collections_raises(postman, bruno)
                  \/ validate_environments_raises(postman, bruno),
                  postman, bruno)
    /\ validation_results' = ret'.heap[ret'.held]
    /\ UNCHANGED <<postman, bruno>>

NextRuns == ChangeOnDisk \/ GenerateValidationReportAgain

SpecRuns == InitRuns /\ [][NextRuns]_vars

(***************************************************************************)
(* The requests of one directory: a collection directory with at most      *)
(* MaxFiles files of any kind, at most one of them named collection.bru    *)
(* and at most one folder.bru                                              *)
(***************************************************************************)
MaxFiles == 3

Listings ==
    {fs \in UNION {[1..n -> FileKinds] : n \in 0..MaxFiles} :
        \A i, j \in 1..Len(fs) :
            (fs[i] = fs[j] /\ fs[i] \in {"collection.bru", "folder.bru"}) => i = j}

InitFiles ==
    /\ postman = FixedPostman
    /\ \E fs \in Listings :
          bruno = TgtWorkspace(<<[name |-> NameA2, files |-> fs, has_meta_name |-> FALSE,
                                  meta_name |-> <<>>, subdirs |-> <<>>]>>,
                               FixedTgtEnvs)
    /\ validation_results = <<>>
    /\ ret = NoCall

CountRequestsInDirectory ==
    /\ ret = NoCall
    /\ ret' = [op |-> "count_requests_in_directory",
               val |-> BrunoParser_count_requests_in_directory(bruno.collections[1])]
    /\ UNCHANGED <<postman, bruno, validation_results>>

NextFiles == CountRequestsInDirectory

SpecFiles == InitFiles /\ [][NextFiles]_vars

(***************************************************************************)
(* The target parser on one environment file of at most MaxLines lines:    *)
(* 'name:' lines at the top level and indented, one of them with a value   *)
(* that holds the text 'name:' (the name hostname:8080), 'variables:'      *)
(* lines, '- name:' lines and other lines                                  *)
(***************************************************************************)
MaxLines == 6

HOSTNAME_8080 == <<"h", "o", "s", "t", "name:", "8", "0", "8", "0">>

EnvLines ==
    {Line(FALSE, "name:", NameA),
     Line(FALSE, "name:", HOSTNAME_8080),
     Line(TRUE, "name:", NameB),
     Line(FALSE, "variables:", <<>>),
     Line(TRUE, "- name:", NameA),
     Line(TRUE, "other", <<"1">>)}

InitEnvFile ==
    /\ postman = FixedPostman
    /\ \E n \in 0..MaxLines : \E lines \in [1..n -> EnvLines] :
          bruno = TgtWorkspace(FixedTgtColls, <<[stem |-> <<>>, lines |-> lines]>>)
    /\ validation_results = <<>>
    /\ ret = NoCall

ParseEnvironmentFile ==
    /\ ret = NoCall
    /\ ret' = [op |-> "parse_environment_file",
               val |-> BrunoParser_parse_environment_file(bruno, bruno.environments[1])]
    /\ UNCHANGED <<postman, bruno, validation_results>>

NextEnvFile == ParseEnvironmentFile

SpecEnvFile == InitEnvFile /\ [][NextEnvFile]_vars

(***************************************************************************)
(* The variables of the source: one environment file and a                 *)
(* global_variables.json, each with a 'values' array of at most MaxValues  *)
(* entries; an entry has the key a or the key b, or has no 'key'           *)
(***************************************************************************)
MaxValues == 3

ValueEntries ==
    {[has_key |-> TRUE, key |-> <<"a">>],
     [has_key |-> TRUE, key |-> <<"b">>],
     [has_key |-> FALSE, key |-> <<>>]}

ValueArrays == UNION {[1..n -> ValueEntries] : n \in 0..MaxValues}

InitValues ==
    /\ \E values, global_values \in ValueArrays :
          postman = [FixedPostman EXCEPT !.environments[1].values = values,
                                         !.global_vars_exists = TRUE,
                                         !.global_values = global_values]
    /\ bruno = FixedBruno
    /\ validation_results = <<>>
    /\ ret = NoCall

GetEnvironmentVariables ==
    /\ ret = NoCall
    /\ ret' = [op |-> "get_environment_variables",
               val |-> PostmanParser_get_environment_variables(postman)]
    /\ UNCHANGED <<postman, bruno, validation_results>>

GetGlobalVariables ==
    /\ ret = NoCall
    /\ ret' = [op |-> "get_global_variables",
               val |-> PostmanParser_get_global_variables(postman)]
    /\ UNCHANGED <<postman, bruno, validation_results>>

NextValues == GetEnvironmentVariables \/ GetGlobalVariables

SpecValues == InitValues /\ [][NextValues]_vars

(***************************************************************************)
(* parse_bru_file on the text of a file.  The text is a sequence of        *)
(* tokens (words, ':', '{', '}', blank, line break); a regular expression  *)
(* is modelled by the match the regex engine finds: the leftmost start,    *)
(* greedy repetitions, '[^}]*' up to the first closing brace.              *)
(***************************************************************************)
WordTokens == {"meta", "vars", "name", "type", "x", "http", "get"} \cup http_methods

\* the end of the run of tokens of the set that starts at p (exclusive)
SkipRun(s, p, set) ==
    CHOOSE i \in p..(Len(s) + 1) :
        /\ i = Len(s) + 1 \/ s[i] \notin set
        /\ \A j \in p..(i - 1) : s[j] \in set

SkipWs(s, p) == SkipRun(s, p, Whitespace)

\* the position of the first line break at or after p, Len(s) + 1 if none
EndOfLine(s, p) == SkipRun(s, p, {t \in Range(s) : t # NL})

\* the leftmost position from..Len(s) at which M holds, 0 if there is none
Leftmost(s, from, M(_)) ==
    IF \E p \in from..Len(s) : M(p)
    THEN CHOOSE p \in from..Len(s) : M(p) /\ \A j \in from..(p - 1) : ~M(j)
    ELSE 0

\* \s*\{([^}]*)\} from position p: white space, the brace, a closing brace
\* somewhere after it
BlockOpens(s, p) ==
    /\ SkipWs(s, p) <= Len(s)
    /\ s[SkipWs(s, p)] = "{"
    /\ \E r \in (SkipWs(s, p) + 1)..Len(s) : s[r] = "}"

\* the position of the closing brace: the first one after the opening brace
BlockCloses(s, p) == Leftmost(s, SkipWs(s, p) + 1, LAMBDA r : s[r] = "}")

BlockGroup(s, p) == SubSeq(s, SkipWs(s, p) + 1, BlockCloses(s, p) - 1)

\* the search that does not want the closing brace: meta\s*\{([^}]*)
meta_search_mutant(content) ==
    LET p == Leftmost(content, 1,
                      LAMBDA i : /\ content[i] = "meta"
                                 /\ SkipWs(content, i + 1) <= Len(content)
                                 /\ content[SkipWs(content, i + 1)] = "{")
        q == SkipWs(content, p + 1)
        r == Leftmost(content, q + 1, LAMBDA i : content[i] = "}")
    IN  IF p = 0 THEN [found |-> FALSE, group |-> <<>>]
        ELSE [found |-> TRUE,
              group |-> SubSeq(content, q + 1, IF r = 0 THEN Len(content) ELSE r - 1)]

\* re.search(r'meta\s*\{([^}]*)\}', content, re.DOTALL)
meta_search(content) ==
    LET p == Leftmost(content, 1, LAMBDA i : content[i] = "meta" /\ BlockOpens(content, i + 1))
    IN  IF p = 0 THEN [found |-> FALSE, group |-> <<>>]
        ELSE [found |-> TRUE, group |-> BlockGroup(content, p + 1)]

\* re.search(key + r':\s*(.+)', text) at position p: the key, the colon, then
\* white space and at least one character that is not a line break; when the
\* white space runs to the end of the text the engine gives back a blank
FieldMatches(text, p, key) ==
    /\ text[p] = key
    /\ p + 1 <= Len(text)
    /\ text[p + 1] = ":"
    /\ \/ SkipWs(text, p + 2) <= Len(text)
       \/ \E k \in (p + 2)..Len(text) : text[k] = " "

FieldGroup(text, p) ==
    IF SkipWs(text, p + 2) <= Len(text)
    THEN SubSeq(text, SkipWs(text, p + 2), EndOfLine(text, SkipWs(text, p + 2)) - 1)
    ELSE <<" ">>

\* name_match / type_match and group(1).strip()
field_search(text, key) ==
    LET p == Leftmost(text, 1, LAMBDA i : FieldMatches(text, i, key))
    IN  IF p = 0 THEN [found |-> FALSE, value |-> <<>>]
        ELSE [found |-> TRUE, value |-> strip(FieldGroup(text, p))]

\* vars(?::[\w-]+)?: the position after 'vars' and its optional suffix
AfterVars(s, p) ==
    IF p + 2 <= Len(s) /\ s[p + 1] = ":" /\ s[p + 2] \in WordTokens
    THEN SkipRun(s, p + 2, WordTokens)
    ELSE p + 1

VarsMatches(s, p) == s[p] = "vars" /\ BlockOpens(s, AfterVars(s, p))

\* re.findall(r'vars(?::[\w-]+)?\s*\{([^}]*)\}', content, re.DOTALL)
RECURSIVE vars_findall(_, _)
vars_findall(content, from) ==
    LET p == Leftmost(content, from, LAMBDA i : VarsMatches(content, i))
    IN  IF p = 0 THEN <<>>
        ELSE <<BlockGroup(content, AfterVars(content, p))>>
             \o vars_findall(content, BlockCloses(content, AfterVars(content, p)) + 1)

\* (\w+)\s*:  at position p: the word that starts there, white space, a colon
VarMatches(block, p) ==
    /\ block[p] \in WordTokens
    /\ SkipWs(block, SkipRun(block, p, WordTokens)) <= Len(block)
    /\ block[SkipWs(block, SkipRun(block, p, WordTokens))] = ":"

\* the end of the match: \s*([^\n]*) after the colon takes the white space,
\* line breaks included, and then the rest of the line it reaches
VarMatchEnd(block, p) ==
    EndOfLine(block, SkipWs(block, SkipWs(block, SkipRun(block, p, WordTokens)) + 1)) - 1

\* re.findall(r'(\w+)\s*:\s*([^\n]*)', vars_block), the keys
RECURSIVE var_findall(_, _)
var_findall(block, from) ==
    LET p == Leftmost(block, from, LAMBDA i : VarMatches(block, i))
    IN  IF p = 0 THEN <<>>
        ELSE <<SubSeq(block, p, SkipRun(block, p, WordTokens) - 1)>>
             \o var_findall(block, VarMatchEnd(block, p) + 1)

http_methods_list == <<"get", "post", "put", "patch", "delete", "head", "options">>

\* re.search(rf'^{method}\s+\{{', content, re.MULTILINE) for one method
method_search(content, method) ==
    \E p \in 1..Len(content) :
        /\ p = 1 \/ content[p - 1] = NL
        /\ content[p] = method
        /\ \E q \in (p + 2)..Len(content) :
              /\ content[q] = "{"
              /\ \A r \in (p + 1)..(q - 1) : content[r] \in Whitespace

upper_method(method) ==
    CASE method = "get" -> "GET" [] method = "post" -> "POST" [] method = "put" -> "PUT"
      [] method = "patch" -> "PATCH" [] method = "delete" -> "DELETE"
      [] method = "head" -> "HEAD" [] method = "options" -> "OPTIONS"

\* meta['method'] = method.upper() for the first method of the list that is
\* found; meta.get('method', '')
method_of(content) ==
    LET found == SelectSeq(http_methods_list, LAMBDA m : method_search(content, m))
    IN  IF found = <<>> THEN <<>> ELSE <<upper_method(found[1])>>

UNKNOWN == <<"unknown">>

\* file_path.read_text(encoding='utf-8') raises on bytes that are not text
parse_bru_file_raises(file) == ~file.decodes

MetaField(content, key, default) ==
    IF meta_search(content).found /\ field_search(meta_search(content).group, key).found
    THEN field_search(meta_search(content).group, key).value
    ELSE default

VarsBlocks(content) == vars_findall(content, 1)

parse_bru_file(file) ==
    [name |-> MetaField(file.content, "name", file.stem),
     type |-> MetaField(file.content, "type", UNKNOWN),
     is_request |-> is_request(file.content),
     method |-> method_of(file.content),
     variables |-> Flatten([j \in 1..Len(VarsBlocks(file.content)) |->
                               var_findall(VarsBlocks(file.content)[j], 1)])]

(***************************************************************************)
(* The texts: at most MaxPieces pieces, each the opening of a meta or vars *)
(* block, a name or type line, a name line without a value, a brace, a     *)
(* closing line or the opening of a method block                           *)
(***************************************************************************)
MaxPieces == 4

Pieces ==
    {<<"meta", " ", "{", NL>>,
     <<"vars", " ", "{", NL>>,
     <<"vars", ":", "x", " ", "{", NL>>,
     <<" ", "name", ":", " ", "x", NL>>,
     <<" ", "type", ":", " ", "http", NL>>,
     <<" ", "name", ":", NL>>,
     <<"{">>,
     <<"}", NL>>,
     <<"get", " ", "{", NL>>}

Texts == {Flatten(ps) : ps \in UNION {[1..n -> Pieces] : n \in 0..MaxPieces}}

STEM == <<"r", "e", "q">>

InitBruFile ==
    /\ postman = FixedPostman
    /\ \/ \E content \in Texts : bruno = [stem |-> STEM, decodes |-> TRUE, content |-> content]
       \/ bruno = [stem |-> STEM, decodes |-> FALSE, content |-> <<>>]
    /\ validation_results = <<>>
    /\ ret = NoCall

ParseBruFile ==
    /\ ret = NoCall
    /\ ret' = [op |-> "parse_bru_file",
               raised |-> parse_bru_file_raises(bruno),
               val |-> IF parse_bru_file_raises(bruno) THEN NONE ELSE parse_bru_file(bruno)]
    /\ UNCHANGED <<postman, bruno, validation_results>>

NextBruFile == ParseBruFile

SpecBruFile == InitBruFile /\ [][NextBruFile]_vars

(***************************************************************************)
(* PostmanExporter: export_collections and export_environments over the    *)
(* lists of a workspace.  An item of a list is the metadata of one         *)
(* collection or environment with the outcome its export will have: the    *)
(* request or response.json() raises, the file cannot be written, or all   *)
(* goes well.  The output directory is the set of files written; the time  *)
(* stamp of a status entry is left out.                                    *)
(***************************************************************************)
MaxExport == 3

Outcomes == {"ok", "fetch_raises", "json_raises", "write_raises"}

ExportItems ==
    {[has_name |-> hn, name |-> IF hn THEN NameA ELSE <<>>, has_uid |-> hu, outcome |-> o] :
        hn \in BOOLEAN, hu \in BOOLEAN, o \in Outcomes}

ExportLists == UNION {[1..n -> ExportItems] : n \in 0..MaxExport}

FixedExportList ==
    <<[has_name |-> TRUE, name |-> NameB, has_uid |-> TRUE, outcome |-> "ok"]>>

\* collection.get("name", "Unknown")
UNKNOWN_NAME == <<"Unknown">>
col_name(item) == IF item.has_name THEN item.name ELSE UNKNOWN_NAME

\* the body of the try block raises: collection["uid"], get_collection,
\* response.json(), os.makedirs / open / json.dump
export_raises(item) == ~item.has_uid \/ item.outcome # "ok"

\* the entry appended for one item, at the end of the try block or in the
\* except block
status_entry(item, type, workspace_name) ==
    [workspace |-> workspace_name,
     name |-> col_name(item),
     type |-> type,
     status |-> IF export_raises(item) THEN "failed" ELSE "success"]

\* the loop that ends at the first exception (no try block around the body)
export_loop_mutant(items, type, workspace_name) ==
    LET stop == IF \E j \in 1..Len(items) : export_raises(items[j])
                THEN CHOOSE j \in 1..Len(items) :
                        export_raises(items[j]) /\ \A k \in 1..(j - 1) : ~export_raises(items[k])
                ELSE Len(items) + 1
    IN  [j \in 1..(stop - 1) |-> status_entry(items[j], type, workspace_name)]

\* for collection in collections: ... self.export_status.append(...)
export_loop(items, type, workspace_name) ==
    [j \in 1..Len(items) |-> status_entry(items[j], type, workspace_name)]

\* the files written: output/<workspace>/<directory>/<name>.json of the items
\* whose export reaches json.dump
written_files(items, directory) ==
    {[directory |-> directory, name |-> col_name(items[j])] :
        j \in {k \in 1..Len(items) : ~export_raises(items[k])}}

InitExport ==
    /\ \/ \E cs \in ExportLists :
            postman = [workspace_name |-> NameA, collections |-> cs,
                       environments |-> FixedExportList]
       \/ \E es \in ExportLists :
            postman = [workspace_name |-> NameA, collections |-> FixedExportList,
                       environments |-> es]
    /\ bruno = {}
    /\ validation_results = <<>>
    /\ ret = [op |-> "PostmanExporter", export_status |-> <<>>, calls |-> <<>>]

ExportCollections ==
    /\ ret.op = "PostmanExporter"
    /\ "collection" \notin Range(ret.calls)
    /\ ret' = [ret EXCEPT !.export_status =
                              @ \o export_loop(postman.collections, "collection",
                                               postman.workspace_name),
                          !.calls = Append(@, "collection")]
    /\ bruno' = bruno \cup written_files(postman.collections, "collections")
    /\ UNCHANGED <<postman, validation_results>>

ExportEnvironments ==
    /\ ret.op = "PostmanExporter"
    /\ "environment" \notin Range(ret.calls)
    /\ ret' = [ret EXCEPT !.export_status =
                              @ \o export_loop(postman.environments, "environment",
                                               postman.workspace_name),
                          !.calls = Append(@, "environment")]
    /\ bruno' = bruno \cup written_files(postman.environments, "environments")
    /\ UNCHANGED <<postman, validation_results>>

NextExport == ExportCollections \/ ExportEnvironments

SpecExport == InitExport /\ [][NextExport]_vars

(***************************************************************************)
(* Workspaces for the order and the number of the records: at most         *)
(* MaxOrder source collections, each over one of three item trees (nested  *)
(* folders with siblings, a chain of folders, a single request), against   *)
(* one of six target collection directories; or the fixed collections with *)
(* environments of total size at most MaxOrder and global variables        *)
(***************************************************************************)
MaxOrder == 2

OrderTrees ==
    << <<Fold(NameA, <<Fold(NameB, <<Req>>), Req, Fold(NameA, <<>>)>>), Req, Fold(NameB, <<>>)>>,
       <<Fold(NameB, <<Fold(NameA, <<Fold(NameA, <<>>)>>)>>)>>,
       <<Req>> >>

OrderPool == Cross(SrcNames, OrderTrees, SrcCollection)

OrderSources == UNION {[1..n -> ToSet(OrderPool)] : n \in 0..MaxOrder}

\* the collection directories of the target: none, one without folders,
\* one with folders the source has or has not, two, one more than the source
OrderTargets ==
    << <<>>,
       <<CollDir(NameA, 0, <<>>)>>,
       <<CollDir(NameA2, 1, <<Dir(NameB, 0, <<>>)>>)>>,
       <<CollDir(NameB, 0, <<Dir(NameA2, 1, <<Dir(NameB, 0, <<>>)>>), Dir(Unmarked, 0, <<>>)>>)>>,
       <<CollDir(NameA, 0, <<Dir(NameB, 2, <<>>), Dir(NameA2, 0, <<>>)>>),
         CollDir(NameB, 3, <<>>)>>,
       <<CollDir(NameB, 0, <<>>), CollDir(NameA2, 0, <<Dir(NameA2, 0, <<>>)>>),
         CollDir(NameA, 1, <<>>)>> >>

InitOrder ==
    /\ \/ /\ \E cs \in OrderSources : \E nglobals \in {0, 1} :
                postman = SrcWorkspace(cs, FixedSrcEnvs, nglobals)
          /\ \E cs \in ToSet(OrderTargets) : bruno = TgtWorkspace(cs, FixedTgtEnvs)
       \/ /\ \E m \in 1..(MaxOrder + 1) : \E i \in 1..Len(SrcEnvTable[m]) :
             \E nglobals \in {0, 2} :
                postman = SrcWorkspace(FixedSrcColls, SrcEnvTable[m][i], nglobals)
          /\ \E m \in 1..(MaxOrder + 1) : \E i \in 1..Len(TgtEnvTable[m]) :
                bruno = TgtWorkspace(FixedTgtColls, TgtEnvTable[m][i])
    /\ validation_results = <<>>
    /\ ret = NoCall

NextOrder == GenerateValidationReport

SpecOrder == InitOrder /\ [][NextOrder]_vars

(***************************************************************************)
(* Workspaces for the names of the target: a source collection with one    *)
(* folder, a target collection directory with one folder directory; the    *)
(* names of the two directories, and whether and what name collection.bru  *)
(* and folder.bru declare in their meta blocks, are drawn.                 *)
(***************************************************************************)
DeclaredNames(names) ==
    {[has_meta_name |-> FALSE, meta_name |-> <<>>]}
    \cup {[has_meta_name |-> TRUE, meta_name |-> nm] : nm \in names}

NamedTarget(dir_name, declared, folder_dir_name, folder_declared) ==
    <<[name |-> dir_name,
       files |-> <<"collection.bru">>,
       has_meta_name |-> declared.has_meta_name,
       meta_name |-> declared.meta_name,
       subdirs |-> <<[name |-> folder_dir_name,
                      files |-> <<"folder.bru", "request.bru">>,
                      has_meta_name |-> folder_declared.has_meta_name,
                      meta_name |-> folder_declared.meta_name,
                      subdirs |-> <<>>]>>]>>

InitNames ==
    /\ \E cn \in {NameA, NameB, COLLECTION} : \E fn \in {NameA, NameB, FOLDER} :
          postman = SrcWorkspace(<<SrcCollection(cn, <<Fold(fn, <<Req>>)>>)>>, FixedSrcEnvs, 0)
    /\ \E dn \in {NameA2, NameB} : \E declared \in DeclaredNames({NameA, NameB}) :
       \E fdn \in {NameA, NameB} : \E folder_declared \in DeclaredNames({NameA2, NameB}) :
          bruno = TgtWorkspace(NamedTarget(dn, declared, fdn, folder_declared), FixedTgtEnvs)
    /\ validation_results = <<>>
    /\ ret = NoCall

NextNames == GenerateValidationReport

SpecNames == InitNames /\ [][NextNames]_vars

(***************************************************************************)
(* Environment files for the variables section: at most MaxSectionLines    *)
(* lines, each a 'variables:' line, a '- name:' line or another section    *)
(* header, indented or not                                                 *)
(***************************************************************************)
MaxSectionLines == 5

SectionLines ==
    {Line(FALSE, "variables:", <<>>),
     Line(TRUE, "variables:", <<>>),
     Line(TRUE, "- name:", NameA),
     Line(FALSE, "- name:", NameB),
     Line(FALSE, "other", <<"1">>),
     Line(TRUE, "other", <<"1">>)}

InitSection ==
    /\ postman = FixedPostman
    /\ \E n \in 0..MaxSectionLines : \E lines \in [1..n -> SectionLines] :
          bruno = TgtWorkspace(FixedTgtColls, <<[stem |-> <<>>, lines |-> lines]>>)
    /\ validation_results = <<>>
    /\ ret = NoCall

NextSection == ParseEnvironmentFile

SpecSection == InitSection /\ [][NextSection]_vars

(***************************************************************************)
(* One validator, called several times: generate_validation_report and     *)
(* get_summary in any order, at most MaxSummaryCalls calls, the workspaces *)
(* changing on disk in between.  ret keeps what the last call returned,    *)
(* whether it raised, the list the last completed                          *)
(* generate_validation_report returned, and what get_summary found held.   *)
(***************************************************************************)
MaxSummaryCalls == 3

report_raises(pm_ws, bruno_ws) ==
    \/ validate_collections_raises(pm_ws, bruno_ws)
    \/ validate_environments_raises(pm_ws, bruno_ws)

\* self.validation_results after generate_validation_report: the report, or
\* what the call had put into the fresh list when the exception came
held_after_generate(pm_ws, bruno_ws) ==
    IF validate_collections_raises(pm_ws, bruno_ws) THEN <<>>
    ELSE IF validate_environments_raises(pm_ws, bruno_ws)
         THEN validate_collections(pm_ws, bruno_ws)
         ELSE generate_validation_report(pm_ws, bruno_ws)

\* if not self.validation_results: self.generate_validation_report()
held_after_get_summary(held, pm_ws, bruno_ws) ==
    IF held = <<>> THEN held_after_generate(pm_ws, bruno_ws) ELSE held

InitSummary ==
    /\ postman \in RunPostman
    /\ bruno \in RunBruno
    /\ validation_results = <<>>
    /\ ret = [op |-> "MigrationValidator", raised |-> FALSE, val |-> NONE,
              generated |-> FALSE, last_report |-> <<>>,
              held_before |-> <<>>, calls |-> 0]

\* what the validator remembers of a call of generate_validation_report:
\* raises says whether the call raised, report is what it returns otherwise
generate_call(r, held, raises, report) ==
    [op |-> "generate_validation_report",
     raised |-> raises,
     val |-> IF raises THEN NONE ELSE report,
     generated |-> r.generated \/ ~raises,
     last_report |-> IF raises THEN r.last_report ELSE report,
     held_before |-> held,
     calls |-> r.calls + 1]

\* the same of a call of get_summary, which generates only when nothing is held
get_summary_call(r, held, raises, report) ==
    [op |-> "get_summary",
     raised |-> held = <<>> /\ raises,
     val |-> IF held = <<>> /\ raises THEN NONE
             ELSE get_summary(IF held = <<>> THEN report ELSE held),
     generated |-> r.generated \/ (held = <<>> /\ ~raises),
     last_report |-> IF held = <<>> /\ ~raises THEN report ELSE r.last_report,
     held_before |-> held,
     calls |-> r.calls + 1]

CallGenerateValidationReport ==
    /\ ret.op # "none"
    /\ ret.calls < MaxSummaryCalls
    /\ validation_results' = held_after_generate(postman, bruno)
    /\ ret' = generate_call(ret, validation_results, report_raises(postman, bruno),
                            generate_validation_report(postman, bruno))
    /\ UNCHANGED <<postman, bruno>>

CallGetSummary ==
    /\ ret.op # "none"
    /\ ret.calls < MaxSummaryCalls
    /\ validation_results' = held_after_get_summary(validation_results, postman, bruno)
    /\ ret' = get_summary_call(ret, validation_results, report_raises(postman, bruno),
                               generate_validation_report(postman, bruno))
    /\ UNCHANGED <<postman, bruno>>

NextSummary == ChangeOnDisk \/ CallGenerateValidationReport \/ CallGetSummary

SpecSummary == InitSummary /\ [][NextSummary]_vars

(***************************************************************************)
(* BrunoRefactorService.import_global_variables on the workspace 'ws'.     *)
(* The target disk is the workspace directory (it exists or not, with or   *)
(* without workspace.yml) and, in collections/, the directory ws with its  *)
(* files and at most MaxRefactor sub-directories, each with some of        *)
(* collection.bru, folder.bru and bruno.json and a request file.  The      *)
(* source disk gives output/ws/global_variables.json: absent, not JSON,    *)
(* with entries that have 'key' and 'value', or with an entry without.     *)
(* Path.rename onto a file that is there replaces it on POSIX and raises   *)
(* FileExistsError on Windows: the disk says which.                        *)
(***************************************************************************)
MaxRefactor == 2

WS == Word("ws")

SubdirFiles ==
    {<<"request.bru">>,
     <<"collection.bru", "request.bru">>,
     <<"folder.bru", "request.bru">>,
     <<"bruno.json", "request.bru">>,
     <<"collection.bru", "bruno.json", "request.bru">>,
     <<"collection.bru", "folder.bru", "request.bru">>,
     <<"folder.bru", "bruno.json", "request.bru">>,
     <<"collection.bru", "folder.bru", "bruno.json", "request.bru">>}

Subdirs ==
    {[name |-> <<>>, files |-> fs, has_meta_name |-> d.has_meta_name,
      meta_name |-> d.meta_name, subdirs |-> <<>>] :
        fs \in SubdirFiles, d \in DeclaredNames({NameB})}

SubdirLists == UNION {[1..n -> Subdirs] : n \in 0..MaxRefactor}

RootFiles == {<<>>, <<"collection.bru", "bruno.json">>}

RefactorDisk(exists, workspace_yml_exists, rename_replaces, roots) ==
    [exists |-> exists,
     workspace_yml_exists |-> workspace_yml_exists,
     rename_replaces |-> rename_replaces,
     workspace_path |-> BrunoRoot,
     collections_exists |-> roots # <<>>,
     collections |-> roots,
     environments_exists |-> FALSE,
     environments |-> <<>>]

RootDir(files, subdirs) ==
    [name |-> WS, files |-> files, has_meta_name |-> FALSE, meta_name |-> <<>>,
     subdirs |-> NumberedDirs(subdirs)]

\* output/ws/global_variables.json
GlobalFiles ==
    {SrcWorkspace(<<>>, <<>>, 0),
     SrcWorkspace(<<>>, <<>>, 3),
     [SrcWorkspace(<<>>, <<>>, 2) EXCEPT !.global_vars_parses = FALSE],
     [SrcWorkspace(<<>>, <<>>, 3) EXCEPT !.global_values[2].has_key = FALSE]}

\* a folder whose collection.bru, if any, stays and whose bruno.json goes
rename_in_folder_mutant(folder) ==
    [folder EXCEPT !.files = SelectSeq(@, LAMBDA kind : kind # "bruno.json")]

\* collection_file.rename(new_collection_file), which replaces a folder.bru
\* that is there, and bruno_json_file.unlink()
rename_in_folder(folder) ==
    [folder EXCEPT !.files =
        IF "collection.bru" \in Range(@)
        THEN <<"folder.bru">>
             \o SelectSeq(@, LAMBDA kind : kind \notin {"collection.bru", "folder.bru",
                                                         "bruno.json"})
        ELSE SelectSeq(@, LAMBDA kind : kind # "bruno.json")]

\* the first sub-directory in which rename finds a folder.bru in its way,
\* Len + 1 when there is none or when rename replaces
FirstConflict(root, rename_replaces) ==
    IF ~rename_replaces
       /\ \E k \in 1..Len(root.subdirs) :
             {"collection.bru", "folder.bru"} \subseteq Range(root.subdirs[k].files)
    THEN CHOOSE k \in 1..Len(root.subdirs) :
            /\ {"collection.bru", "folder.bru"} \subseteq Range(root.subdirs[k].files)
            /\ \A j \in 1..(k - 1) :
                  ~({"collection.bru", "folder.bru"} \subseteq Range(root.subdirs[j].files))
    ELSE Len(root.subdirs) + 1

rename_collection_files_raises(disk) ==
    /\ disk.collections # <<>>
    /\ FirstConflict(disk.collections[1], disk.rename_replaces)
          <= Len(disk.collections[1].subdirs)

\* the loop over the sub-directories, up to the one at which rename raises
rename_collection_files(root, rename_replaces) ==
    [root EXCEPT !.subdirs =
        [k \in 1..Len(root.subdirs) |->
            IF k < FirstConflict(root, rename_replaces)
            THEN rename_in_folder(root.subdirs[k]) ELSE root.subdirs[k]]]

\* open(path, "w"): the file is created, or replaced
WriteFile(dir, kind) ==
    [dir EXCEPT !.files = <<kind>> \o SelectSeq(@, LAMBDA k : k # kind)]

create_bruno_json(root) == WriteFile(root, "bruno.json")

\* the new collection.bru is a vars:pre-request block, without meta block
create_collection_bru(root) ==
    [WriteFile(root, "collection.bru") EXCEPT !.has_meta_name = FALSE, !.meta_name = <<>>]

\* variable['key'] on an entry without 'key'; a missing file and a file that
\* is not JSON are caught and give no variables
create_collection_bru_raises(pm_ws) ==
    /\ pm_ws.global_vars_exists
    /\ pm_ws.global_vars_parses
    /\ \E j \in 1..Len(pm_ws.global_values) : ~pm_ws.global_values[j].has_key

\* open(workspace_yml_path, "r")
update_workspace_yml_raises(disk) == ~disk.workspace_yml_exists

\* open(bruno_json_path, "w") in a directory that does not exist
create_bruno_json_raises(disk) == disk.collections = <<>>

import_global_variables_raises(disk, pm_ws) ==
    /\ disk.exists
    /\ \/ rename_collection_files_raises(disk)
       \/ create_bruno_json_raises(disk)
       \/ create_collection_bru_raises(pm_ws)
       \/ update_workspace_yml_raises(disk)

\* the disk after the call, or after the steps that came before the exception
import_global_variables(disk, pm_ws) ==
    IF ~disk.exists \/ create_bruno_json_raises(disk) THEN disk
    ELSE IF rename_collection_files_raises(disk)
    THEN [disk EXCEPT !.collections[1] = rename_collection_files(@, disk.rename_replaces)]
    ELSE IF create_collection_bru_raises(pm_ws)
    THEN [disk EXCEPT !.collections[1] =
             create_bruno_json(rename_collection_files(@, disk.rename_replaces))]
    ELSE [disk EXCEPT !.collections[1] =
             create_collection_bru(create_bruno_json(
                 rename_collection_files(@, disk.rename_replaces)))]

InitRefactor ==
    /\ postman \in GlobalFiles
    /\ \/ bruno = RefactorDisk(FALSE, FALSE, TRUE, <<>>)
       \/ \E yml \in BOOLEAN : bruno = RefactorDisk(TRUE, yml, TRUE, <<>>)
       \/ \E yml, replaces \in BOOLEAN : \E files \in RootFiles : \E subdirs \in SubdirLists :
             bruno = RefactorDisk(TRUE, yml, replaces, <<RootDir(files, subdirs)>>)
    /\ validation_results = <<>>
    /\ ret = NoCall

ImportGlobalVariables ==
    /\ ret = NoCall
    /\ bruno' = import_global_variables(bruno, postman)
    /\ ret' = [op |-> "import_global_variables",
               raised |-> import_global_variables_raises(bruno, postman),
               before |-> bruno]
    /\ UNCHANGED <<postman, validation_results>>

NextRefactor == ImportGlobalVariables

SpecRefactor == InitRefactor /\ [][NextRefactor]_vars

(***************************************************************************)
(* Vocabulary of the properties                                            *)
(***************************************************************************)
Reported == ret.op = "generate_validation_report" /\ ~ret.raised

PmColls == PostmanParser_get_collection_structure(postman)
BrColls == BrunoParser_get_collection_structure(bruno)
PmEnvs == PostmanParser_get_environment_variables(postman)
BrEnvs == BrunoParser_get_environment_variables(bruno)

SameKey(a, b) == normalize_name(a.name) = normalize_name(b.name)
Matches(x, list) == {j \in 1..Len(list) : SameKey(x, list[j])}

\* the records a source collection accounts for, and where they start
SegLen(c) == IF Matches(c, BrColls) # {} THEN 2 + Len(c.folders) ELSE 1
Start(i) == 2 + SumSeq([j \in 1..(i - 1) |-> SegLen(PmColls[j])])
EnvStart == Start(Len(PmColls) + 1)

RecordsOf(path, type) ==
    {k \in 1..Len(validation_results) :
        /\ validation_results[k].postman_item_path = path
        /\ validation_results[k].type = type}

Compares(r, type, pm_count, bruno_count) ==
    /\ r.type = type
    /\ r.postman_count = pm_count
    /\ r.bruno_count = bruno_count
    /\ r.validation_status \in {"Pass", "Fail"}
    /\ r.validation_status = "Pass" <=> pm_count = bruno_count

IsNotFound(r, type, pm_count) ==
    /\ r.type = type
    /\ r.postman_count = pm_count
    /\ r.bruno_count = 0
    /\ r.bruno_path = NOT_FOUND
    /\ r.validation_status = "Fail"

(***************************************************************************)
(* C2: a source collection whose normalized name is that of a target       *)
(* collection gets exactly two 'collection' records, the request-count     *)
(* comparison and then the folder-count comparison, each Pass iff the two  *)
(* counts are equal; the records of validate_folders for the pair follow   *)
(* immediately.                                                            *)
(***************************************************************************)
C2_MatchedCollection(i) ==
    LET c == PmColls[i]
        k == Start(i)
    IN  /\ k + 1 + Len(c.folders) <= Len(validation_results)
        /\ Cardinality(RecordsOf(c.path, "collection")) = 2
        /\ \E j \in Matches(c, BrColls) :
            LET b == BrColls[j]
            IN  /\ validation_results[k].bruno_path = b.path
                /\ validation_results[k + 1].bruno_path = b.path
                /\ Compares(validation_results[k], "collection",
                            c.request_count, b.request_count)
                /\ Compares(validation_results[k + 1], "collection",
                            c.folder_count, b.folder_count)
                /\ SubSeq(validation_results, k + 2, k + 1 + Len(c.folders))
                       = validate_folders(c, b)
        /\ \A n \in 1..Len(c.folders) : validation_results[k + 1 + n].type = "folder"

C2_TwoRecordsThenFolders ==
    Reported =>
        \A i \in 1..Len(PmColls) :
            Matches(PmColls[i], BrColls) # {} => C2_MatchedCollection(i)

\* a matched collection whose request counts differ, whose folder counts
\* agree, and which has a folder
C2_Witness ==
    /\ Reported
    /\ \E i \in 1..Len(PmColls) :
        /\ Matches(PmColls[i], BrColls) # {}
        /\ PmColls[i].folders # <<>>
        /\ validation_results[Start(i)].validation_status = "Fail"
        /\ validation_results[Start(i) + 1].validation_status = "Pass"

(***************************************************************************)
(* C3: a source collection that no target collection matches gets exactly  *)
(* one record, a Fail with bruno_path 'NOT FOUND' and bruno_count 0, and   *)
(* no folder record follows it.                                            *)
(***************************************************************************)
C3_UnmatchedCollection(i) ==
    LET c == PmColls[i]
        k == Start(i)
    IN  /\ k + 1 <= Len(validation_results)
        /\ IsNotFound(validation_results[k], "collection", c.request_count)
        /\ validation_results[k].postman_item_path = c.path
        /\ {n \in 1..Len(validation_results) :
               validation_results[n].postman_item_path = c.path} = {k}
        /\ validation_results[k + 1].type # "folder"

C3_NotFoundNoRecursion ==
    Reported =>
        \A i \in 1..Len(PmColls) :
            Matches(PmColls[i], BrColls) = {} => C3_UnmatchedCollection(i)

\* an unmatched collection that has folders, beside a target collection
\* that has folders of the same names
C3_Witness ==
    /\ Reported
    /\ \E i \in 1..Len(PmColls) :
        /\ Matches(PmColls[i], BrColls) = {}
        /\ PmColls[i].folders # <<>>
        /\ \E j \in 1..Len(BrColls) : Matches(PmColls[i].folders[1], BrColls[j].folders) # {}

(***************************************************************************)
(* C4: for a matched pair, validate_folders emits one record per folder of *)
(* the source collection's flattened list: a comparison of the request     *)
(* counts with a folder of the same normalized name anywhere in the target *)
(* collection's flattened list, Pass iff they are equal, or, when there is *)
(* none, a Fail with 'NOT FOUND', bruno_count 0 and the source count.      *)
(***************************************************************************)
C4_FolderRecord(r, f, bruno_folders) ==
    /\ r.postman_item_path = f.path
    /\ IF Matches(f, bruno_folders) # {}
       THEN \E j \in Matches(f, bruno_folders) :
               /\ r.bruno_path = bruno_folders[j].path
               /\ Compares(r, "folder", f.request_count, bruno_folders[j].request_count)
       ELSE IsNotFound(r, "folder", f.request_count)

C4_OneRecordPerFolder ==
    Reported =>
        \A i \in 1..Len(PmColls) :
            LET c == PmColls[i]
                k == Start(i) + 1
            IN  Matches(c, BrColls) # {} =>
                    /\ k + Len(c.folders) + 1 <= Len(validation_results)
                    /\ validation_results[k + Len(c.folders) + 1].type # "folder"
                    /\ \E j \in Matches(c, BrColls) :
                        /\ validation_results[k].bruno_path = BrColls[j].path
                        /\ \A n \in 1..Len(c.folders) :
                              C4_FolderRecord(validation_results[k + n], c.folders[n],
                                              BrColls[j].folders)

\* a top-level source folder compared with a nested target folder, and
\* another source folder that is not found
C4_Witness ==
    /\ Reported
    /\ \E k \in 1..Len(validation_results) :
        /\ validation_results[k].type = "folder"
        /\ Len(validation_results[k].postman_item_path) = 1
        /\ validation_results[k].bruno_path # NOT_FOUND
        /\ Len(validation_results[k].bruno_path) > Len(BrunoRoot) + 3

(***************************************************************************)
(* C5: the first record of a report is the collection-count record of the  *)
(* workspace, Pass iff the two workspaces have the same number of          *)
(* collections, whatever their names and whatever the matching finds.      *)
(***************************************************************************)
NumSourceCollections ==
    IF postman.collections_exists THEN Len(postman.collections) ELSE 0
NumTargetCollections ==
    IF bruno.collections_exists
    THEN Cardinality({i \in 1..Len(bruno.collections) :
                         \E n \in 1..Len(bruno.collections[i].files) :
                             bruno.collections[i].files[n] = "collection.bru"})
    ELSE 0

C5_CollectionCountFirst ==
    Reported =>
        Compares(validation_results[1], "workspace",
                 NumSourceCollections, NumTargetCollections)

\* equal numbers of collections, none of which is matched
C5_Witness ==
    /\ Reported
    /\ validation_results[1].validation_status = "Pass"
    /\ PmColls # <<>>
    /\ \A i \in 1..Len(PmColls) : Matches(PmColls[i], BrColls) = {}

(***************************************************************************)
(* C6: a source collection, folder or environment is matched to the first  *)
(* target item of the same normalized name in the target list's order,     *)
(* also when several target items have that name and also when another     *)
(* source item is matched to the same target item.                         *)
(***************************************************************************)
First(S) == CHOOSE j \in S : \A k \in S : j <= k

C6_FirstOf(r, x, list) ==
    Matches(x, list) # {} => r.bruno_path = list[First(Matches(x, list))].path

C6_FirstMatchWins ==
    Reported =>
        /\ EnvStart + Len(PmEnvs) <= Len(validation_results)
        /\ \A i \in 1..Len(PmColls) :
              /\ C6_FirstOf(validation_results[Start(i)], PmColls[i], BrColls)
              /\ Matches(PmColls[i], BrColls) # {} =>
                    \A n \in 1..Len(PmColls[i].folders) :
                        C6_FirstOf(validation_results[Start(i) + 1 + n],
                                   PmColls[i].folders[n],
                                   BrColls[First(Matches(PmColls[i], BrColls))].folders)
        /\ \A i \in 1..Len(PmEnvs) :
              C6_FirstOf(validation_results[EnvStart + i], PmEnvs[i], BrEnvs)

\* two source collections matched to the same target collection, the first
\* of two of that normalized name, whose request counts differ
C6_Witness ==
    /\ Reported
    /\ \E i, j \in 1..Len(PmColls) :
        /\ i # j
        /\ Cardinality(Matches(PmColls[i], BrColls)) = 2
        /\ validation_results[Start(i)].bruno_path = validation_results[Start(j)].bruno_path
        /\ validation_results[Start(i)].bruno_path # NOT_FOUND
        /\ \E a, b \in Matches(PmColls[i], BrColls) :
              BrColls[a].request_count # BrColls[b].request_count

(***************************************************************************)
(* C7: validate_environments emits the environment-count record, Pass iff  *)
(* the two numbers of environments are equal, then one record per source   *)
(* environment: the comparison of the variable counts with the matched     *)
(* target environment, Pass iff they are equal, or a Fail with 'NOT FOUND' *)
(* and bruno_count 0 when no target environment matches.                   *)
(***************************************************************************)
C7_EnvironmentRecord(r, e) ==
    /\ r.postman_item_path = e.path
    /\ IF Matches(e, BrEnvs) # {}
       THEN \E j \in Matches(e, BrEnvs) :
               /\ r.bruno_path = BrEnvs[j].path
               /\ Compares(r, "environment", e.variable_count, BrEnvs[j].variable_count)
       ELSE IsNotFound(r, "environment", e.variable_count)

C7_EnvironmentRecords ==
    Reported =>
        /\ EnvStart + Len(PmEnvs) <= Len(validation_results)
        /\ Compares(validation_results[EnvStart], "environment",
                    Len(postman.environments), Len(bruno.environments))
        /\ \A i \in 1..Len(PmEnvs) :
              C7_EnvironmentRecord(validation_results[EnvStart + i], PmEnvs[i])
        /\ \A k \in (EnvStart + Len(PmEnvs) + 1)..Len(validation_results) :
              validation_results[k].type # "environment"

\* three source environments: one passes, one differs in its count, one
\* is not found
C7_Witness ==
    /\ Reported
    /\ \E i, j, k \in 1..Len(PmEnvs) :
        /\ validation_results[EnvStart + i].validation_status = "Pass"
        /\ validation_results[EnvStart + j].validation_status = "Fail"
        /\ validation_results[EnvStart + j].bruno_path # NOT_FOUND
        /\ validation_results[EnvStart + k].bruno_path = NOT_FOUND

(***************************************************************************)
(* C8: with a global_variables.json the report has exactly one             *)
(* 'global_variables' record; it is 'Info', counts the entries of the      *)
(* file's values array and is the only 'Info' record; without the file     *)
(* the report has no 'Info' record.                                        *)
(***************************************************************************)
InfoRecords ==
    {k \in 1..Len(validation_results) : validation_results[k].validation_status = "Info"}
GlobalRecords ==
    {k \in 1..Len(validation_results) : validation_results[k].type = "global_variables"}

C8_GlobalVariablesInfo ==
    Reported =>
        /\ InfoRecords = GlobalRecords
        /\ postman.global_vars_exists =>
              /\ Cardinality(GlobalRecords) = 1
              /\ \A k \in GlobalRecords :
                    validation_results[k].postman_count = Len(postman.global_values)
        /\ ~postman.global_vars_exists => InfoRecords = {}

\* a global_variables.json of four entries
C8_Witness ==
    /\ Reported
    /\ postman.global_vars_exists
    /\ Len(postman.global_values) = 4
    /\ \E k \in InfoRecords : validation_results[k].postman_count = 4

\* no global_variables.json
C8_WitnessAbsent ==
    /\ Reported
    /\ ~postman.global_vars_exists

(***************************************************************************)
(* C1: the report on a source workspace and a target workspace of the same *)
(* shape has no 'Fail' record.  As stated this is refuted by items whose   *)
(* normalized names coincide; it holds when the normalized names of the    *)
(* collections, of the folders of each collection and of the environments  *)
(* are pairwise distinct.                                                  *)
(***************************************************************************)
NoFailRecord ==
    \A k \in 1..Len(validation_results) :
        validation_results[k].validation_status # "Fail"

Unambiguous(list) == \A i \in 1..Len(list) : Matches(list[i], list) = {i}

UnambiguousNames ==
    /\ Unambiguous(PmColls)
    /\ \A i \in 1..Len(PmColls) : Unambiguous(PmColls[i].folders)
    /\ Unambiguous(PmEnvs)

Separators == {" ", "_", "-"}
CasePairs == {<<"A", "a">>, <<"a", "A">>, <<"B", "b">>, <<"b", "B">>}

WithoutSeparators(s) == SelectSeq(s, LAMBDA c : c \notin Separators)

DifferOnlyInCaseAndSeparators(a, b) ==
    LET x == WithoutSeparators(a)
        y == WithoutSeparators(b)
    IN  /\ Len(x) = Len(y)
        /\ \A i \in 1..Len(x) : x[i] = y[i] \/ <<x[i], y[i]>> \in CasePairs

C9_NormalizeName ==
    ret.op = "normalize_name" =>
        /\ ret.key_of_key = ret.key
        /\ DifferOnlyInCaseAndSeparators(ret.name, ret.other) => ret.key = ret.other_key
        /\ \A i \in 1..Len(ret.key) : ret.key[i] \notin Separators \cup Upper

\* two different spellings of one name, with upper case and a separator
C9_Witness ==
    /\ ret.op = "normalize_name"
    /\ ret.name # ret.other
    /\ DifferOnlyInCaseAndSeparators(ret.name, ret.other)
    /\ \E i \in 1..Len(ret.name) : ret.name[i] \in Upper
    /\ \E i \in 1..Len(ret.other) : ret.other[i] = "-"
    /\ ret.key # <<>>

(***************************************************************************)
(* C10: for the collection and for every folder node the source parser     *)
(* produces, request_count is the number of request items directly in its  *)
(* item list plus the sum of the request_count of its immediate child      *)
(* folders.                                                                *)
(***************************************************************************)
ChildFolders(items) == SelectSeq(items, LAMBDA it : it.has_item /\ ~it.has_request)
DirectRequests(items) == Cardinality({i \in 1..Len(items) : items[i].has_request})

\* the folder nodes below an item list, and the place of its k-th child
\* folder in the pre-order list `nodes`, the list's own node being at `base`
RECURSIVE NumFolderNodes(_)
NumFolderNodes(items) ==
    SumSeq([k \in 1..Len(ChildFolders(items)) |->
              1 + NumFolderNodes(ChildFolders(items)[k].item)])

ChildIndex(items, base, k) ==
    base + 1 + SumSeq([j \in 1..(k - 1) |->
                         1 + NumFolderNodes(ChildFolders(items)[j].item)])

ChildSum(items, nodes, base) ==
    SumSeq([k \in 1..Len(ChildFolders(items)) |->
              nodes[ChildIndex(items, base, k)].request_count])

RECURSIVE AggregationBelow(_, _, _)
AggregationBelow(items, nodes, base) ==
    \A k \in 1..Len(ChildFolders(items)) :
        LET f == ChildFolders(items)[k]
            n == ChildIndex(items, base, k)
        IN  /\ nodes[n].request_count = DirectRequests(f.item) + ChildSum(f.item, nodes, n)
            /\ AggregationBelow(f.item, nodes, n)

C10_RequestAggregation ==
    ret.op = "get_collection_structure" =>
        \A i \in 1..Len(ret.val) :
            LET items == postman.collections[i].item
                nodes == ret.val[i].folders
            IN  /\ Len(nodes) = NumFolderNodes(items)
                /\ ret.val[i].request_count
                       = DirectRequests(items) + ChildSum(items, nodes, 0)
                /\ AggregationBelow(items, nodes, 0)

\* a folder with a request of its own and a child folder with another
C10_Witness ==
    /\ ret.op = "get_collection_structure"
    /\ \E i \in 1..Len(ret.val) :
        \E a, b \in 1..Len(ret.val[i].folders) :
            /\ Len(ret.val[i].folders[a].path) = 1
            /\ Len(ret.val[i].folders[b].path) = 2
            /\ ret.val[i].folders[a].request_count = 2
            /\ ret.val[i].folders[b].request_count = 1

(***************************************************************************)
(* C11: for the collection and for every folder node the target parser     *)
(* produces, whatever the directory layout, request_count is the number of *)
(* request files directly in the directory plus the sum of the             *)
(* request_count of the nodes of its immediate child folders, and          *)
(* direct_request_count <= request_count.  The parser breaks the law for   *)
(* layouts with a sub-directory that has no folder.bru.                    *)
(***************************************************************************)
MarkedSubdirs(dir) ==
    SelectSeq(dir.subdirs,
              LAMBDA d : \E i \in 1..Len(d.files) : d.files[i] = "folder.bru")
RequestFiles(dir) == Cardinality({i \in 1..Len(dir.files) : dir.files[i] = "request.bru"})

\* the folder nodes below a directory, and the place of its k-th child
\* folder in the pre-order list of nodes, the directory's own node being at
\* `base`
RECURSIVE NumDirNodes(_)
NumDirNodes(dir) ==
    SumSeq([k \in 1..Len(MarkedSubdirs(dir)) |-> 1 + NumDirNodes(MarkedSubdirs(dir)[k])])

DirIndex(dir, base, k) ==
    base + 1 + SumSeq([j \in 1..(k - 1) |-> 1 + NumDirNodes(MarkedSubdirs(dir)[j])])

DirChildSum(dir, nodes, base) ==
    SumSeq([k \in 1..Len(MarkedSubdirs(dir)) |->
              nodes[DirIndex(dir, base, k)].request_count])

RECURSIVE DirAggregationBelow(_, _, _)
DirAggregationBelow(dir, nodes, base) ==
    \A k \in 1..Len(MarkedSubdirs(dir)) :
        LET d == MarkedSubdirs(dir)[k]
            n == DirIndex(dir, base, k)
        IN  /\ nodes[n].request_count = RequestFiles(d) + DirChildSum(d, nodes, n)
            /\ nodes[n].direct_request_count <= nodes[n].request_count
            /\ DirAggregationBelow(d, nodes, n)

BrunoParsed ==
    /\ ret.op = "BrunoParser.get_collection_structure"
    /\ Len(ret.val) = Len(bruno.collections)

\* the claim as stated
C11_TargetRequestAggregation ==
    BrunoParsed =>
        \A i \in 1..Len(ret.val) :
            LET dir == bruno.collections[i]
                nodes == ret.val[i].folders
            IN  /\ Len(nodes) = NumDirNodes(dir)
                /\ ret.val[i].request_count = RequestFiles(dir) + DirChildSum(dir, nodes, 0)
                /\ DirAggregationBelow(dir, nodes, 0)

(***************************************************************************)
(* C12: for the collection and for every folder node either parser         *)
(* produces, folder_count is the number of its immediate child folders     *)
(* plus the sum of the folder_count of those child folders.  The target    *)
(* parser breaks the law: a folder node carries the number of its          *)
(* immediate child folders only.                                           *)
(***************************************************************************)
FolderChildSum(items, nodes, base) ==
    SumSeq([k \in 1..Len(ChildFolders(items)) |->
              nodes[ChildIndex(items, base, k)].folder_count])

RECURSIVE FolderAggregationBelow(_, _, _)
FolderAggregationBelow(items, nodes, base) ==
    \A k \in 1..Len(ChildFolders(items)) :
        LET f == ChildFolders(items)[k]
            n == ChildIndex(items, base, k)
        IN  /\ nodes[n].folder_count
                   = Len(ChildFolders(f.item)) + FolderChildSum(f.item, nodes, n)
            /\ FolderAggregationBelow(f.item, nodes, n)

DirFolderChildSum(dir, nodes, base) ==
    SumSeq([k \in 1..Len(MarkedSubdirs(dir)) |->
              nodes[DirIndex(dir, base, k)].folder_count])

RECURSIVE DirFolderAggregationBelow(_, _, _)
DirFolderAggregationBelow(dir, nodes, base) ==
    \A k \in 1..Len(MarkedSubdirs(dir)) :
        LET d == MarkedSubdirs(dir)[k]
            n == DirIndex(dir, base, k)
        IN  /\ nodes[n].folder_count
                   = Len(MarkedSubdirs(d)) + DirFolderChildSum(d, nodes, n)
            /\ DirFolderAggregationBelow(d, nodes, n)

C12_SourceFolderAggregation ==
    ret.op = "get_collection_structure" =>
        \A i \in 1..Len(ret.val) :
            LET items == postman.collections[i].item
                nodes == ret.val[i].folders
            IN  /\ Len(nodes) = NumFolderNodes(items)
                /\ ret.val[i].folder_count
                       = Len(ChildFolders(items)) + FolderChildSum(items, nodes, 0)
                /\ FolderAggregationBelow(items, nodes, 0)

C12_TargetFolderAggregation ==
    BrunoParsed =>
        \A i \in 1..Len(ret.val) :
            LET dir == bruno.collections[i]
                nodes == ret.val[i].folders
            IN  /\ Len(nodes) = NumDirNodes(dir)
                /\ ret.val[i].folder_count
                       = Len(MarkedSubdirs(dir)) + DirFolderChildSum(dir, nodes, 0)
                /\ DirFolderAggregationBelow(dir, nodes, 0)

\* the claim as stated
C12_FolderAggregation == C12_SourceFolderAggregation /\ C12_TargetFolderAggregation

(***************************************************************************)
(* C13: in the scenario of 'User API' the report has Pass for the          *)
(* collection's request-count record (5 = 5), Pass for its folder-count    *)
(* record (1 = 1) and Pass for the record of folder 'Auth' (2 = 2).  The   *)
(* validator reports 'Auth' as not found when the folder.bru of the        *)
(* directory 'Auth' declares no name.                                      *)
(***************************************************************************)
PassRecord(r, type, count) ==
    /\ r.type = type
    /\ r.postman_count = count
    /\ r.bruno_count = count
    /\ r.validation_status = "Pass"

\* the claim as stated
C13_ScenarioPasses ==
    Reported =>
        /\ Len(validation_results) >= 4
        /\ PassRecord(validation_results[2], "collection", 5)
        /\ PassRecord(validation_results[3], "collection", 1)
        /\ PassRecord(validation_results[4], "folder", 2)
        /\ validation_results[4].postman_item_path = <<AUTH>>

(***************************************************************************)
(* C14: a missing directory collections/ or environments/, in either       *)
(* workspace, and a missing global_variables.json are not errors: the run  *)
(* does not raise, the missing directory counts as an empty list and the   *)
(* missing file gives no record.  When the target has no collections/ and  *)
(* the source has n >= 1 collections, the report starts with the 'Fail'    *)
(* collection-count record (n against 0), then has exactly n 'Fail'        *)
(* records of collections with bruno_path 'NOT FOUND' and bruno_count 0,   *)
(* and has no folder record.                                               *)
(***************************************************************************)
CountRecord(r, type, pm_count, bruno_count) ==
    /\ Compares(r, type, pm_count, bruno_count)
    /\ r.validation_status = "Fail" <=> pm_count # bruno_count

C14_MissingIsNotAnError ==
    ret.op = "generate_validation_report" =>
        /\ ~ret.raised
        /\ Len(validation_results) >= EnvStart
        /\ ~postman.collections_exists => validation_results[1].postman_count = 0
        /\ ~bruno.collections_exists => validation_results[1].bruno_count = 0
        /\ ~postman.environments_exists =>
              /\ validation_results[EnvStart].postman_count = 0
              /\ {k \in 1..Len(validation_results) :
                      validation_results[k].type = "environment"} = {EnvStart}
        /\ ~bruno.environments_exists => validation_results[EnvStart].bruno_count = 0
        /\ ~postman.global_vars_exists => GlobalRecords = {}
        /\ (~bruno.collections_exists /\ NumSourceCollections >= 1) =>
              LET n == NumSourceCollections
              IN  /\ CountRecord(validation_results[1], "workspace", n, 0)
                  /\ validation_results[1].validation_status = "Fail"
                  /\ \A i \in 1..n :
                        IsNotFound(validation_results[i + 1], "collection",
                                   PmColls[i].request_count)
                  /\ {k \in 1..Len(validation_results) :
                          validation_results[k].type = "collection"} = 2..(n + 1)
                  /\ EnvStart = n + 2
                  /\ validation_results[EnvStart].type = "environment"
                  /\ \A k \in 1..Len(validation_results) :
                        validation_results[k].type # "folder"

\* two source collections, one with a folder, against a target without
\* collections/ and without environments/; no global_variables.json
C14_Witness ==
    /\ Reported
    /\ ~bruno.collections_exists
    /\ ~bruno.environments_exists
    /\ ~postman.global_vars_exists
    /\ Len(PmColls) = 2
    /\ \E i \in 1..2 : PmColls[i].folders # <<>>
    /\ Len(validation_results) >= 4

(***************************************************************************)
(* C15: a validation run never raises: for every on-disk state of the two  *)
(* workspaces, files with malformed content and items or environments      *)
(* whose name is null included, generate_validation_report completes with  *)
(* a report.  The code raises on a source file that is not JSON and on a   *)
(* null name that reaches normalize_name.                                  *)
(***************************************************************************)
\* the claim as stated
C15_NeverRaises == ret.op = "generate_validation_report" => ~ret.raised

(***************************************************************************)
(* C16: the exit code of the validation script is non-zero when the report *)
(* has at least one 'Fail' record and zero when every record is 'Pass' or  *)
(* 'Info'.                                                                 *)
(***************************************************************************)
FailRecords ==
    {k \in 1..Len(validation_results) : validation_results[k].validation_status = "Fail"}

C16_WitnessFail ==
    /\ ret.op = "main"
    /\ ret.reported
    /\ ret.exit_code = 1
    /\ FailRecords # {}

(***************************************************************************)
(* C17: the runs of a validator are independent: each call returns the     *)
(* report of the on-disk state at that call, so two calls on the same      *)
(* on-disk state return equal sequences; the records of an earlier run are *)
(* not accumulated into a later result; and the list an earlier call       *)
(* returned is not changed by a later call.                                *)
(***************************************************************************)
C17_IndependentRuns ==
    ret.op = "runs" =>
        /\ \A i \in 1..Len(ret.returned) :
              LET call == ret.returned[i]
              IN  /\ call.value = generate_validation_report(call.postman, call.bruno)
                  /\ ret.heap[call.list] = call.value
        /\ \A i, j \in 1..Len(ret.returned) :
              (/\ ret.returned[i].postman = ret.returned[j].postman
               /\ ret.returned[i].bruno = ret.returned[j].bruno)
                  => ret.returned[i].value = ret.returned[j].value
        /\ validation_results = ret.heap[ret.held]

\* three calls returned: the first and the third on the same on-disk state,
\* the second on another one and with another report
C17_Witness ==
    /\ ret.op = "runs"
    /\ Len(ret.returned) = 3
    /\ ret.returned[1].postman = ret.returned[3].postman
    /\ ret.returned[1].bruno = ret.returned[3].bruno
    /\ ret.returned[2].value # ret.returned[1].value
    /\ ret.returned[3].value = ret.returned[1].value
    /\ ret.returned[3].list # ret.returned[1].list

(***************************************************************************)
(* C18: the source parser takes an item for a folder iff it has 'item' and *)
(* no 'request', and for exactly one request iff it has 'request'; the     *)
(* item list of an item with 'request' is not descended, an item with      *)
(* neither field counts for nothing, and no item counts both ways.         *)
(***************************************************************************)
\* the items the rule looks at, in pre-order: those of the list and those
\* below its folders
RECURSIVE Visited(_)
Visited(items) ==
    IF items = <<>> THEN <<>>
    ELSE LET it == Head(items)
         IN  <<it>> \o (IF it.has_item /\ ~it.has_request THEN Visited(it.item) ELSE <<>>)
             \o Visited(Tail(items))

FoldersOf(seen) == SelectSeq(seen, LAMBDA it : it.has_item /\ ~it.has_request)
RequestsOf(seen) == SelectSeq(seen, LAMBDA it : it.has_request)
NeitherOf(seen) == SelectSeq(seen, LAMBDA it : ~it.has_item /\ ~it.has_request)

C18_Classification ==
    ret.op = "get_collection_structure" =>
        \A i \in 1..Len(ret.val) :
            LET seen == Visited(postman.collections[i].item)
                nodes == ret.val[i].folders
            IN  /\ ret.val[i].folder_count = Len(FoldersOf(seen))
                /\ ret.val[i].request_count = Len(RequestsOf(seen))
                /\ Len(nodes) = Len(FoldersOf(seen))
                /\ ret.val[i].folder_count + ret.val[i].request_count
                       + Len(NeitherOf(seen)) = Len(seen)
                /\ \A n \in 1..Len(nodes) :
                      LET below == Visited(FoldersOf(seen)[n].item)
                      IN  /\ nodes[n].folder_count = Len(FoldersOf(below))
                          /\ nodes[n].request_count = Len(RequestsOf(below))

\* a request that carries an item list with a request in it, next to a
\* folder and to an item with neither field
C18_Witness ==
    /\ ret.op = "get_collection_structure"
    /\ \E i \in 1..Len(ret.val) :
          LET items == postman.collections[i].item
          IN  /\ \E k \in 1..Len(items) :
                    /\ items[k].has_request
                    /\ items[k].has_item
                    /\ \E n \in 1..Len(items[k].item) : items[k].item[n].has_request
              /\ \E k \in 1..Len(items) : ~items[k].has_request /\ ~items[k].has_item
              /\ ret.val[i].folder_count = 1
              /\ ret.val[i].request_count = 1

(***************************************************************************)
(* C19: the direct request count of a target directory is the number of    *)
(* its files that have the extension .bru, are not named collection.bru or *)
(* folder.bru, and contain a line that starts with one of the lower-case   *)
(* method names get, post, put, patch, delete, head, options followed by a *)
(* block opener, that is by white space and an opening brace; the other    *)
(* .bru files are not counted.                                             *)
(***************************************************************************)
MethodNames == {"get", "post", "put", "patch", "delete", "head", "options"}

RECURSIVE SplitLines(_)
SplitLines(content) ==
    IF \A k \in 1..Len(content) : content[k] # NL THEN <<content>>
    ELSE LET n == CHOOSE k \in 1..Len(content) :
                     content[k] = NL /\ \A j \in 1..(k - 1) : content[j] # NL
         IN  <<SubSeq(content, 1, n - 1)>>
             \o SplitLines(SubSeq(content, n + 1, Len(content)))

Blank(line) == \A k \in 1..Len(line) : line[k] = " "

RECURSIVE DropSpaces(_)
DropSpaces(line) ==
    IF line # <<>> /\ Head(line) = " " THEN DropSpaces(Tail(line)) ELSE line

StartsWithBrace(line) == ~Blank(line) /\ Head(DropSpaces(line)) = "{"

\* line i starts with a method name, and a brace comes next: after white
\* space on the same line, or first on the next line that is not blank
OpensMethodBlock(lines, i) ==
    /\ lines[i] # <<>>
    /\ Head(lines[i]) \in MethodNames
    /\ LET rest == Tail(lines[i])
       IN  IF Blank(rest)
           THEN \E j \in (i + 1)..Len(lines) :
                   /\ StartsWithBrace(lines[j])
                   /\ \A k \in (i + 1)..(j - 1) : Blank(lines[k])
           ELSE Head(rest) = " " /\ StartsWithBrace(rest)

HasMethodLine(content) ==
    LET lines == SplitLines(content)
    IN  \E i \in 1..Len(lines) : OpensMethodBlock(lines, i)

CountedFiles(dir) ==
    {i \in 1..Len(dir.files) :
        /\ FileOf(dir, i).suffix = ".bru"
        /\ dir.files[i] \notin {"collection.bru", "folder.bru"}
        /\ HasMethodLine(Content(dir.files[i]))}

C19_DirectRequestCount ==
    ret.op = "count_requests_in_directory" =>
        ret.val = Cardinality(CountedFiles(bruno.collections[1]))

\* one file is counted; a .bru file with an upper-case method and the
\* collection.bru, which holds a method block, are not
C19_Witness ==
    /\ ret.op = "count_requests_in_directory"
    /\ ret.val = 1
    /\ \E i, j, k \in 1..Len(bruno.collections[1].files) :
          /\ bruno.collections[1].files[i] = "upper.bru"
          /\ bruno.collections[1].files[j] = "collection.bru"
          /\ bruno.collections[1].files[k] \in {"request.bru", "post.bru", "nextline.bru"}

(***************************************************************************)
(* C20: parse_environment_file extracts exactly the names of the           *)
(* '- name:' lines of the variables: section of the file (the lines after  *)
(* the first 'variables:' line), in file order, whatever lines lie in      *)
(* between; variable_count is their number; the name of the environment is *)
(* the value of the first top-level 'name:' line, or the stem of the file  *)
(* when there is none.  The parser removes the text 'name:' from inside    *)
(* the value too.                                                          *)
(***************************************************************************)
EnvFile == bruno.environments[1]

SectionStart(lines) ==
    IF \E k \in 1..Len(lines) : lines[k].head = "variables:"
    THEN CHOOSE k \in 1..Len(lines) :
            /\ lines[k].head = "variables:"
            /\ \A j \in 1..(k - 1) : lines[j].head # "variables:"
    ELSE Len(lines) + 1

VariableLines(lines) ==
    SelectSeq(SubSeq(lines, SectionStart(lines) + 1, Len(lines)),
              LAMBDA line : line.head = "- name:")

TopLevelNames(lines) == SelectSeq(lines, LAMBDA line : ~line.indent /\ line.head = "name:")

\* the claim as stated
C20_EnvironmentFile ==
    ret.op = "parse_environment_file" =>
        /\ ret.val.variables
              = [k \in 1..Len(VariableLines(EnvFile.lines)) |->
                    VariableLines(EnvFile.lines)[k].value]
        /\ ret.val.variable_count = Len(ret.val.variables)
        /\ ret.val.name = IF TopLevelNames(EnvFile.lines) # <<>>
                          THEN TopLevelNames(EnvFile.lines)[1].value
                          ELSE EnvFile.stem

(***************************************************************************)
(* C21: for a source environment file and for global_variables.json the    *)
(* variables are the 'key' fields of the entries of 'values', in the order *)
(* of the array and with their repetitions (an entry without 'key' gives   *)
(* the empty string), and variable_count is the length of 'values'.        *)
(***************************************************************************)
KeysInOrder(extracted, values) ==
    /\ extracted.variable_count = Len(values)
    /\ Len(extracted.variables) = Len(values)
    /\ \A j \in 1..Len(values) :
          extracted.variables[j] = IF values[j].has_key THEN values[j].key ELSE <<>>

C21_VariableKeys ==
    /\ ret.op = "get_environment_variables" =>
          /\ Len(ret.val) = 1
          /\ KeysInOrder(ret.val[1], postman.environments[1].values)
    /\ ret.op = "get_global_variables" =>
          KeysInOrder(ret.val, postman.global_values)

\* an environment whose values have the keys b, a, b
C21_Witness ==
    /\ ret.op = "get_environment_variables"
    /\ ret.val[1].variables = << <<"b">>, <<"a">>, <<"b">> >>
    /\ ret.val[1].variable_count = 3

\* global variables with the key a twice
C21_WitnessGlobal ==
    /\ ret.op = "get_global_variables"
    /\ ret.val.variables = << <<"a">>, <<"a">> >>

(***************************************************************************)
(* C22: parse_bru_file on any text returns a result and does not raise,    *)
(* whether the text has no meta block or a meta or vars block with inner   *)
(* braces; what it cannot extract has its default: the name is the stem of *)
(* the file and the type 'unknown' when there is no meta block or no name  *)
(* or type line, the variables are empty when there is no vars block.      *)
(***************************************************************************)
\* the word, white space, an opening brace and later a closing brace
HasBlock(content, word) ==
    \E p \in 1..Len(content) :
        /\ content[p] = word
        /\ \E q \in (p + 1)..Len(content) :
              /\ content[q] = "{"
              /\ \A j \in (p + 1)..(q - 1) : content[j] \in Whitespace
              /\ \E r \in (q + 1)..Len(content) : content[r] = "}"

HasField(content, key) ==
    \E p \in 1..(Len(content) - 1) : content[p] = key /\ content[p + 1] = ":"

HasVars(content) ==
    \E p \in 1..Len(content) :
        /\ content[p] = "vars"
        /\ \E q \in (p + 1)..Len(content) :
              content[q] = "{" /\ \E r \in (q + 1)..Len(content) : content[r] = "}"

C22_MalformedBru ==
    (ret.op = "parse_bru_file" /\ bruno.decodes) =>
        /\ ~ret.raised
        /\ ~HasBlock(bruno.content, "meta") =>
              ret.val.name = bruno.stem /\ ret.val.type = UNKNOWN
        /\ ~HasField(bruno.content, "name") => ret.val.name = bruno.stem
        /\ ~HasField(bruno.content, "type") => ret.val.type = UNKNOWN
        /\ ~HasVars(bruno.content) => ret.val.variables = <<>>

\* a meta block cut short by an inner pair of braces: the name line after
\* them is not extracted
C22_Witness ==
    /\ ret.op = "parse_bru_file"
    /\ bruno.content = <<"meta", " ", "{", NL, "{", "}", NL, " ", "name", ":", " ", "x", NL>>
    /\ ~ret.raised
    /\ ret.val.name = bruno.stem
    /\ ret.val.type = UNKNOWN

\* no meta block at all, and a vars block with an inner brace
C22_WitnessVars ==
    /\ ret.op = "parse_bru_file"
    /\ bruno.content = <<"vars", " ", "{", NL, "{", " ", "name", ":", " ", "x", NL, "}", NL>>
    /\ ret.val.name = bruno.stem
    /\ ret.val.variables = << <<"name">> >>

(***************************************************************************)
(* C23: export_collections (export_environments) on a list of n items      *)
(* appends exactly n entries to export_status, one per item in the order   *)
(* of the list, each with status 'success' or 'failed'; an item whose      *)
(* export raises (no uid, failed fetch, failed write) has 'failed', and    *)
(* the items after it are still exported.                                  *)
(***************************************************************************)
\* the items of the calls made so far, in the order of the calls
ExportedItems ==
    Flatten([k \in 1..Len(ret.calls) |->
                IF ret.calls[k] = "collection" THEN postman.collections
                ELSE postman.environments])

ExportedTypes ==
    Flatten([k \in 1..Len(ret.calls) |->
                IF ret.calls[k] = "collection"
                THEN [j \in 1..Len(postman.collections) |-> "collection"]
                ELSE [j \in 1..Len(postman.environments) |-> "environment"]])

C23_FailureContainment ==
    ret.op = "PostmanExporter" =>
        /\ Len(ret.export_status) = Len(ExportedItems)
        /\ \A j \in 1..Len(ExportedItems) :
              /\ ret.export_status[j].name =
                    (IF ExportedItems[j].has_name THEN ExportedItems[j].name
                     ELSE <<"Unknown">>)
              /\ ret.export_status[j].type = ExportedTypes[j]
              /\ ret.export_status[j].status \in {"success", "failed"}
              /\ ret.export_status[j].status = "failed" <=>
                    (~ExportedItems[j].has_uid \/ ExportedItems[j].outcome # "ok")

\* three collections: the first has no uid, the second cannot be fetched,
\* the third is exported
C23_Witness ==
    /\ ret.op = "PostmanExporter"
    /\ ret.calls = <<"collection">>
    /\ Len(postman.collections) = 3
    /\ ~postman.collections[1].has_uid
    /\ postman.collections[2].has_uid /\ postman.collections[2].outcome = "fetch_raises"
    /\ ret.export_status[1].status = "failed"
    /\ ret.export_status[2].status = "failed"
    /\ ret.export_status[3].status = "success"
    /\ bruno = {[directory |-> "collections", name |-> NameA]}

(***************************************************************************)
(* C24: the order of the records of a report: the collection-count record; *)
(* for each source collection, in the order of the source list, its        *)
(* collection record or records and then one record per folder of the      *)
(* collection in depth-first pre-order (a folder before the folders nested *)
(* in it, then its next sibling); the environment-count record; one record *)
(* per source environment in source order; last the 'Info' record of the   *)
(* global variables when there is one.                                     *)
(***************************************************************************)
\* the paths of the folders below an item list: each child folder, the
\* folders nested in it, then the next child
RECURSIVE PreOrderPaths(_, _)
PreOrderPaths(items, parent) ==
    Flatten([k \in 1..Len(ChildFolders(items)) |->
                <<parent \o <<ChildFolders(items)[k].name>> >>
                \o PreOrderPaths(ChildFolders(items)[k].item,
                                 parent \o <<ChildFolders(items)[k].name>>)])

Entry(type, path) == <<type, path>>

FolderEntries(paths) == [n \in 1..Len(paths) |-> Entry("folder", paths[n])]

CollectionEntries(c, items, targets) ==
    IF Matches(c, targets) # {}
    THEN <<Entry("collection", c.path), Entry("collection", c.path)>>
         \o FolderEntries(PreOrderPaths(items, <<>>))
    ELSE <<Entry("collection", c.path)>>

ExpectedEntries(sources, targets, environments) ==
    <<Entry("workspace", postman.workspace_path \o <<Word("collections")>>)>>
    \o Flatten([i \in 1..Len(sources) |->
                   CollectionEntries(sources[i], postman.collections[i].item, targets)])
    \o <<Entry("environment", postman.workspace_path \o <<Word("environments")>>)>>
    \o [i \in 1..Len(environments) |-> Entry("environment", environments[i].path)]
    \o (IF postman.global_vars_exists
        THEN <<Entry("global_variables",
                     postman.workspace_path \o <<Word("global_variables.json")>>)>>
        ELSE <<>>)

ExpectedOrder == ExpectedEntries(PmColls, BrColls, PmEnvs)

C24_RecordOrder ==
    Reported =>
        /\ [k \in 1..Len(validation_results) |->
              Entry(validation_results[k].type, validation_results[k].postman_item_path)]
           = ExpectedOrder
        /\ postman.global_vars_exists =>
              validation_results[Len(validation_results)].validation_status = "Info"

\* two matched source collections, the first with nested folders and
\* siblings, and a global-variables record at the end
C24_Witness ==
    /\ Reported
    /\ Len(postman.collections) = 2
    /\ postman.collections[1].item = OrderTrees[1]
    /\ postman.collections[2].item = OrderTrees[2]
    /\ Matches(PmColls[1], BrColls) # {}
    /\ Matches(PmColls[2], BrColls) # {}
    /\ validation_results[4].postman_item_path = <<NameA>>
    /\ validation_results[5].postman_item_path = <<NameA, NameB>>
    /\ validation_results[6].postman_item_path = <<NameA, NameA>>
    /\ validation_results[7].postman_item_path = <<NameB>>
    /\ validation_results[Len(validation_results)].type = "global_variables"

(***************************************************************************)
(* C25: the number of records of a report is 2, plus for each source       *)
(* collection 2 and the number of folders of its flattened list when a     *)
(* target collection matches it and 1 otherwise, plus the number of source *)
(* environments, plus 1 when global_variables.json exists.  No record      *)
(* names a target item that its source item does not match.                *)
(***************************************************************************)
TargetPaths(list) == {list[j].path : j \in 1..Len(list)}

\* the items of the list with the normalized name of one of the names
PathsMatching(names, list) ==
    {list[j].path : j \in {n \in 1..Len(list) :
        \E nm \in names : normalize_name(nm) = normalize_name(list[n].name)}}

NamesAt(path, list) == {list[i].name : i \in {n \in 1..Len(list) : list[n].path = path}}

\* the target items that the source item at this path matches
MatchedBy(path, sources, targets, environments, target_environments, target_folders) ==
    PathsMatching(NamesAt(path, sources), targets)
    \cup PathsMatching(NamesAt(path, environments), target_environments)
    \cup PathsMatching(IF path = <<>> THEN {} ELSE {path[Len(path)]}, target_folders)

ExpectedCount(sources, targets, environments) ==
    2 + SumSeq([i \in 1..Len(sources) |->
                  IF Matches(sources[i], targets) # {}
                  THEN 2 + Len(sources[i].folders) ELSE 1])
      + Len(environments)
      + (IF postman.global_vars_exists THEN 1 ELSE 0)

NamesOnlyMatches(sources, targets, environments, target_environments, target_folders) ==
    \A k \in 1..Len(validation_results) :
        validation_results[k].bruno_path
            \in (TargetPaths(targets) \cup TargetPaths(target_environments)
                 \cup TargetPaths(target_folders)) =>
            validation_results[k].bruno_path
                \in MatchedBy(validation_results[k].postman_item_path, sources, targets,
                              environments, target_environments, target_folders)

C25_RecordCount ==
    Reported =>
        LET sources == PmColls
            targets == BrColls
            environments == PmEnvs
            target_environments == BrEnvs
            target_folders == Flatten([j \in 1..Len(targets) |-> targets[j].folders])
        IN  /\ Len(validation_results) = ExpectedCount(sources, targets, environments)
            /\ NamesOnlyMatches(sources, targets, environments, target_environments,
                                target_folders)

\* a matched collection without folders whose target collection has a
\* folder: five records
C25_Witness ==
    /\ Reported
    /\ Len(PmColls) = 1
    /\ Len(PmEnvs) = 1
    /\ ~postman.global_vars_exists
    /\ PmColls[1].folders = <<>>
    /\ \E j \in Matches(PmColls[1], BrColls) : BrColls[j].folders # <<>>
    /\ Len(validation_results) = 5

\* a target collection that no source collection matches: four records
C25_WitnessCollection ==
    /\ Reported
    /\ Len(PmColls) = 1
    /\ Len(PmEnvs) = 1
    /\ ~postman.global_vars_exists
    /\ BrColls # <<>>
    /\ Matches(PmColls[1], BrColls) = {}
    /\ Len(validation_results) = 4

(***************************************************************************)
(* C26: for every collection node of either parser, folder_count is the    *)
(* length of the collection's flattened 'folders' list, on every input     *)
(* tree.  The source parser keeps the equation.  The target parser breaks  *)
(* it on a tree in which a directory with folder.bru lies below a          *)
(* directory without one: count_all_folders descends into every            *)
(* directory, get_folder_structure only into the directories that are      *)
(* folders.                                                                *)
(***************************************************************************)
C26_SourceFolderCount ==
    ret.op = "get_collection_structure" =>
        \A i \in 1..Len(ret.val) : ret.val[i].folder_count = Len(ret.val[i].folders)

C26_TargetFolderCount ==
    BrunoParsed =>
        \A i \in 1..Len(ret.val) : ret.val[i].folder_count = Len(ret.val[i].folders)

\* the claim as stated
C26_FolderCountIsListLength == C26_SourceFolderCount /\ C26_TargetFolderCount

\* the equation holds on the target trees all of whose folders lie below
\* folders only
RECURSIVE NoFolderBelowUnmarked(_, _)
NoFolderBelowUnmarked(dir, marked) ==
    \A k \in 1..Len(dir.subdirs) :
        /\ BrunoParser_is_folder(dir.subdirs[k]) => marked
        /\ NoFolderBelowUnmarked(dir.subdirs[k], marked /\ BrunoParser_is_folder(dir.subdirs[k]))

C26_TargetFolderCountMarked ==
    BrunoParsed =>
        \A i \in 1..Len(ret.val) :
            NoFolderBelowUnmarked(bruno.collections[i], TRUE) =>
                ret.val[i].folder_count = Len(ret.val[i].folders)

(***************************************************************************)
(* C27: the names the target side is matched by.  A target collection has  *)
(* the name of its directory, whatever its collection.bru declares; a      *)
(* target folder has the name its folder.bru declares in the meta block,   *)
(* and the name 'folder', the stem of the marker file, when it declares    *)
(* none: the name of the folder's directory never counts.                  *)
(***************************************************************************)
SameNormalized(a, b) == normalize_name(a) = normalize_name(b)

TargetCollectionDir == bruno.collections[1]
TargetFolderDir == bruno.collections[1].subdirs[1]
TargetFolderName ==
    IF TargetFolderDir.has_meta_name THEN TargetFolderDir.meta_name ELSE FOLDER

C27_TargetNames ==
    Reported =>
        /\ validation_results[2].type = "collection"
        /\ validation_results[2].bruno_path # NOT_FOUND
              <=> SameNormalized(postman.collections[1].info_name, TargetCollectionDir.name)
        /\ validation_results[2].bruno_path # NOT_FOUND =>
              /\ validation_results[4].type = "folder"
              /\ validation_results[4].bruno_path # NOT_FOUND
                    <=> SameNormalized(postman.collections[1].item[1].name, TargetFolderName)

\* a folder.bru without a name, in a directory named as the source folder
\* is not: the source folder 'folder' is found, in directory B
C27_Witness ==
    /\ Reported
    /\ ~TargetFolderDir.has_meta_name
    /\ TargetFolderDir.name = NameB
    /\ postman.collections[1].item[1].name = FOLDER
    /\ validation_results[4].bruno_path # NOT_FOUND
    /\ validation_results[4].validation_status = "Pass"

\* a folder.bru without a name in the directory B: the source folder B
\* is not found
C27_WitnessDirectory ==
    /\ Reported
    /\ ~TargetFolderDir.has_meta_name
    /\ TargetFolderDir.name = NameB
    /\ postman.collections[1].item[1].name = NameB
    /\ validation_results[2].bruno_path # NOT_FOUND
    /\ validation_results[4].bruno_path = NOT_FOUND

\* a collection.bru that declares the name B in the directory a_: the
\* source collection A is matched, the source collection B is not
C27_WitnessCollection ==
    /\ Reported
    /\ TargetCollectionDir.has_meta_name
    /\ TargetCollectionDir.meta_name = NameB
    /\ TargetCollectionDir.name = NameA2
    /\ postman.collections[1].info_name = NameA
    /\ validation_results[2].bruno_path # NOT_FOUND

(***************************************************************************)
(* C28: the variables section of an environment file opens at the first    *)
(* line that starts with 'variables:' after stripping and is never closed: *)
(* every later '- name:' line is a variable, whatever its indentation and  *)
(* whatever section headers stand in between, and no '- name:' line before *)
(* the first 'variables:' line is.                                         *)
(***************************************************************************)
C28_SectionNeverCloses ==
    ret.op = "parse_environment_file" =>
        /\ ret.val.variable_count = Len(VariableLines(EnvFile.lines))
        /\ ret.val.variables =
              [k \in 1..Len(VariableLines(EnvFile.lines)) |->
                  VariableLines(EnvFile.lines)[k].value]

\* a '- name:' line before the indented 'variables:' line, then a section
\* header and two '- name:' lines, the second not indented
C28_Witness ==
    /\ ret.op = "parse_environment_file"
    /\ EnvFile.lines = <<Line(FALSE, "- name:", NameB),
                         Line(TRUE, "variables:", <<>>),
                         Line(FALSE, "other", <<"1">>),
                         Line(TRUE, "- name:", NameA),
                         Line(FALSE, "- name:", NameB)>>
    /\ ret.val.variables = <<NameA, NameB>>

(***************************************************************************)
(* C29: every record has the status 'Pass', 'Fail' or 'Info'; after any    *)
(* sequence of calls of generate_validation_report and get_summary,        *)
(* get_summary returns as total_validations the length of the report       *)
(* generated last, which is passed + failed + info; get_summary generates  *)
(* a report only when none is held and otherwise leaves validation_results *)
(* as it is.  The total is not the length of the report generated last     *)
(* when a later generate_validation_report raised in validate_environments *)
(* and left the records of the collections in the list.                    *)
(***************************************************************************)
\* what holds of every call: the summary counts the list that is held
C29_SummaryOfHeldResults ==
    /\ \A k \in 1..Len(validation_results) :
          validation_results[k].validation_status \in {"Pass", "Fail", "Info"}
    /\ (ret.op = "get_summary" /\ ~ret.raised) =>
          /\ ret.val.total_validations = Len(validation_results)
          /\ ret.val.total_validations = ret.val.passed + ret.val.failed + ret.val.info
          /\ ret.held_before # <<>> => validation_results = ret.held_before

\* the claim as stated
C29_SummaryConsistency ==
    /\ C29_SummaryOfHeldResults
    /\ (ret.op = "get_summary" /\ ~ret.raised) =>
          /\ ret.generated
          /\ ret.val.total_validations = Len(ret.last_report)

\* a summary of a report generated before the workspaces changed on disk
C29_WitnessHeld ==
    /\ ret.op = "get_summary"
    /\ ~ret.raised
    /\ ret.held_before # <<>>
    /\ ret.generated
    /\ ret.val.total_validations = Len(ret.last_report)
    /\ ~report_raises(postman, bruno)
    /\ ret.last_report # generate_validation_report(postman, bruno)

(***************************************************************************)
(* C30: after import_global_variables('ws') has completed on a workspace   *)
(* whose collections/ws exists, collections/ws holds a collection.bru, no  *)
(* immediate sub-directory holds collection.bru or bruno.json, and each    *)
(* sub-directory that had collection.bru has folder.bru; BrunoParser then  *)
(* reports collections/ws as one collection named ws with the former       *)
(* collections as folders.  When the workspace directory does not exist    *)
(* the call returns and the disk is as before.                             *)
(***************************************************************************)
Has(dir, kind) == kind \in Range(dir.files)

FormerCollections == {k \in 1..Len(ret.before.collections[1].subdirs) :
                         Has(ret.before.collections[1].subdirs[k], "collection.bru")}

C30_Refactored(root, reported) ==
    /\ Has(root, "collection.bru")
    /\ Len(root.subdirs) = Len(ret.before.collections[1].subdirs)
    /\ \A k \in 1..Len(root.subdirs) :
          /\ ~Has(root.subdirs[k], "collection.bru")
          /\ ~Has(root.subdirs[k], "bruno.json")
          /\ root.subdirs[k].name = ret.before.collections[1].subdirs[k].name
    /\ \A k \in FormerCollections : Has(root.subdirs[k], "folder.bru")
    /\ Len(reported) = 1
    /\ reported[1].name = WS
    /\ \A k \in FormerCollections :
          \E n \in 1..Len(reported[1].folders) :
              reported[1].folders[n].path = reported[1].path \o <<root.subdirs[k].name>>

C30_ImportGlobalVariables ==
    ret.op = "import_global_variables" =>
        /\ ~ret.before.exists => (~ret.raised /\ bruno = ret.before)
        /\ (~ret.raised /\ ret.before.collections # <<>>) =>
              C30_Refactored(bruno.collections[1], BrunoParser_get_collection_structure(bruno))

\* two former collections, one of them with bruno.json and a folder.bru of
\* its own, become the two folders of the collection ws
C30_Witness ==
    /\ ret.op = "import_global_variables"
    /\ ~ret.raised
    /\ ret.before.collections # <<>>
    /\ FormerCollections = {1, 2}
    /\ Has(ret.before.collections[1].subdirs[1], "bruno.json")
    /\ Has(ret.before.collections[1].subdirs[1], "folder.bru")
    /\ ~Has(ret.before.collections[1], "collection.bru")
    /\ Len(BrunoParser_get_collection_structure(ret.before)) = 0
    /\ Len(BrunoParser_get_collection_structure(bruno)[1].folders) = 2

\* no workspace directory
C30_WitnessMissing ==
    /\ ret.op = "import_global_variables"
    /\ ~ret.before.exists
    /\ bruno = ret.before
====
